---------------------------- MODULE Spec2Model ----------------------------
(***************************************************************************)
(* Council meeting analyzer: the staged batch pipeline and its ledger.     *)
(*                                                                         *)
(* The ledger (SQLite tables meetings, transcripts,                        *)
(* transcription_validation, analysis, processing_log) and the artifact    *)
(* store (audio file, transcript JSON, diarization JSON) are the durable   *)
(* state.  Every ledger operation is its own transaction (database.get_db  *)
(* commits on exit), so every ledger write is one step of the model and    *)
(* the process may be interrupted between any two of them.                 *)
(*                                                                         *)
(* processing_log is kept as one sequence per clip_id: the rows of one     *)
(* meeting in insertion (id) order.                                        *)
(***************************************************************************)
EXTENDS Integers, Sequences, FiniteSets, TLC

\* ------------------------------------------------------------------ bounds
NumClips == 2

MaxBatch == 2

MaxDiarizeRuns == 1

MaxCrashes == 1

MaxOps == 1

MaxRetriesArg == 2

MaxAttempts == 3

\* analysis rows counted per (clip_id, analysis_type, segment)
MaxRows == 2

\* agenda items of a page or of an insert_agenda_items call
MaxItems == 2

\* insert_agenda_items calls made by a caller of its own
MaxCalls == 2

\* largest clip id range of discover_meetings_in_range
NumProbes == 3

\* largest concurrency argument of discover_meetings_in_range
MaxConcurrency == 2

\* words in a text handed to calculate_segment_wer
MaxWords == 2

\* segments of a transcript handed to compare_transcripts
MaxSegs == 2

\* segment start and end times are in 0..MaxTime
MaxTime == 1

\* segments of the primary transcript that validate_meeting loads
MaxPrimarySegs == 4

\* validate_meeting: primary_segments[:50], the 50 cut to this many segments
Tier1Limit == 3

\* validate_meeting: segments_needing_deep[:20], the 20 cut to this many
Tier2Limit == 2

\* segments that segment_meeting hands to analyze_meeting
MaxAnalysisSegs == 2

\* analyze_meeting: the analysis_types argument is the first NumTypes of
\* the default list
NumTypes == 2

\* transcript segments handed to merge_speaker_identifications
NumTranscriptSegs == 3

\* pyannote turns handed to merge_speaker_identifications
MaxTurns == 2

\* entries of llm_ids
MaxLlm == 1

\* words in a full text or a word-timestamp list handed to the segmenter
MaxTextWords == 3

\* agenda and word times are the multiples 0..MaxSlot of TimeUnit seconds
MaxSlot == 2

TimeUnit == 300

\* .index-point divs of a clip page
MaxAnchors == 3

\* the time attribute of an index point is in 0..MaxAnchorTime
MaxAnchorTime == 3

\* --------------------------------------------------------------- constants
Clips == 1..NumClips

\* the tasks of one discover_meetings_in_range call
ProbeIds == 1..NumProbes

\* transcribe_with_both_models: the two engines it invokes
Engines == {"primary", "secondary"}

\* transcribe_audio: result.get("text", "") is the empty string or spoken text
TextKinds == {"empty", "text"}

\* no pure function has been called
NoCall == [name |-> "none", args |-> <<>>, ret |-> <<>>]

\* the str "" (a str is its words and whether it has outer whitespace)
EmptyText == [pad |-> FALSE, words |-> <<>>]

\* a float as numerator and denominator
Zero == <<0, 1>>

One == <<1, 1>>

\* load_transcript_file: None, no such file
None == [present |-> FALSE, text |-> EmptyText, segments |-> <<>>]

\* no transcription_validation row
NoRow == [present |-> FALSE, wer_score |-> Zero, human_review_needed |-> FALSE]

\* no engine has returned in this call
NoText == [m \in Engines |-> "none"]

\* no second worker invocation
NoWorker == [wstage |-> "none", cur |-> 1, wpc |-> "none", wres |-> "none",
             nwrites |-> 0, nevents |-> 0, etext |-> NoText]

\* transcribe_with_both_models: the results of the two engines
EngineResults == [Engines -> TextKinds]

\* parse_meeting_date of the title on the clip's page: the page of a clip
\* is fixed, and so is its date; odd clips are the later meetings
MeetingDate(c) == 1 + (c % 2)

\* the stages run_full_pipeline sequences, in its source order
PipelineStages == <<"discovery", "download", "transcribe", "diarize", "validate", "analyze", "reports">>

\* stages that have a worker function taking a clip_id
WorkerStages == {"download", "transcribe", "diarize", "validate", "analyze"}

\* audio file on disk: missing, zero bytes, non-empty but unprobeable, good
AudioStates == {"none", "empty", "bad", "ok"}

\* JSON artifact on disk: missing, truncated (json.load raises), complete
FileStates == {"none", "corrupt", "ok"}

VARIABLES
    status,      \* meetings.status per clip_id; "absent" = no row
    video_url,   \* meetings.video_url is set
    mdate,       \* meetings.meeting_date
    audio,       \* {audioDir}/{clip_id}.mp3
    tfile,       \* {transcriptDir}/{clip_id}_large_v3.json
    tfile2,      \* {transcriptDir}/{clip_id}_medium.json
    dfile,       \* {transcriptDir}/{clip_id}_diarization.json
    trec,        \* a transcripts row exists
    vrec,        \* a transcription_validation row exists
    arec,        \* number of analysis rows of (clip_id, "summary", first segment)
    log,         \* processing_log rows of the clip: <<stage, status>>
    opc,         \* run_full_pipeline: "idle" or the stage being run
    bphase,      \* inside a stage: "enter" (before the query), "loop", or a
                 \* position inside one iteration of the loop
    pending,     \* the rest of the batch list of the stage
    bsize,       \* batch_size argument of the running batch function
    ninv,        \* worker invocations made by the running batch function
    wstage,      \* stage of the worker invocation in progress, or "none"
    cur,         \* clip_id argument of the (last) worker invocation
    wpc,         \* position inside the worker
    wres,        \* how the last worker invocation ended
    nwrites,     \* update_meeting_status calls of the (last) invocation
    nevents,     \* log_processing calls for (cur, stage) of the invocation
    advanced,    \* <<clip, stage>> whose output status a worker has written
    errors,      \* PipelineResult.errors is non-empty
    cpc,         \* run_continuous: "off", "loop" or "run" (worker called)
    max_retries, \* run_continuous argument
    permanently_failed, \* run_continuous local set
    attempts,    \* diarize_meeting calls per clip in this run_continuous
    fixing,      \* clip whose transcript fix_transcript is rewriting, or 0
    crashes,     \* interruptions so far
    ops,         \* operator commands (worker calls, fix_transcript) so far
    agenda,      \* agenda_items rows of the clip, in id order: item numbers
    pages,       \* run_discovery: what the clip's page parsed to in this run
    rerun,       \* run_discovery has been called again on the same pages
    stats_new,   \* save_discovered_meetings: stats["new"]
    stats_updated, \* save_discovered_meetings: stats["updated"]
    apc,         \* insert_agenda_items: position inside its transaction
    aclip,       \* insert_agenda_items: clip_id argument
    aitems,      \* insert_agenda_items: items argument
    arows,       \* the clip's rows as the open transaction sees them
    ncalls,      \* insert_agenda_items calls made by a caller of its own
    ppc,         \* discover_meetings_in_range: "off", "gather", "collect", "returned"
    concurrency, \* its concurrency argument
    prange,      \* end_id - start_id + 1; probe i is for clip start_id + i - 1
    sem,         \* asyncio.Semaphore: the permits left
    ptask,       \* per probe: "created", "fetching" (holds a permit) or "done"
    presults,    \* what gather holds for the probe
    discovered,  \* the list being returned: probe numbers
    pidx,        \* the loop over results: enumerate index + 1
    etext,       \* transcribe_meeting: the text each engine returned, per model
    shutdown_requested, \* run_continuous: the flag its signal handler sets
    parked,      \* a second worker invocation running at the same time: its
                 \* stage, clip_id, position and result while the other one steps
    fcall,       \* the last call of a pure function: name, arguments, result
    primary,     \* validate_meeting: the loaded large_v3 transcript
    secondary,   \* validate_meeting: the loaded medium transcript, or None
    overall_wer, \* validate_meeting: overall_wer
    divergent_segments, \* validate_meeting: divergent_segments
    tier1_scores, \* validate_meeting: tier1_scores, entry i + 1 for index i
    segments_needing_deep, \* validate_meeting: the "index" of each list entry
    tier2_scores, \* validate_meeting: tier2_scores, a dict by index
    called,      \* the Chat calls of this validate_meeting: tier, index, response
    vrow,        \* the transcription_validation row of the clip being validated
    an_segments, \* analyze_meeting: segments, each a long or a short text
    an_i,        \* analyze_meeting: the loops' position, segment and type
    an_calls,    \* the Chat calls of this analyze_meeting: segment, type, response
    an_rows      \* the analysis rows this analyze_meeting has inserted

ledger == <<status, video_url, mdate, trec, vrec, arec, log>>

files == <<audio, tfile, tfile2, dfile>>

batch == <<opc, bphase, pending, bsize, ninv, errors>>

worker == <<wstage, cur, wpc, wres, nwrites, nevents, advanced>>

cont == <<cpc, max_retries, permanently_failed, attempts, fixing, crashes, ops>>

disc == <<pages, rerun, stats_new, stats_updated>>

txn == <<apc, aclip, aitems, arows, ncalls>>

probes == <<ppc, concurrency, prange, sem, ptask, presults, discovered, pidx>>

\* state of single calls that the pipeline holds at rest between them
\* calls made outside the pipeline
val == <<primary, secondary, overall_wer, divergent_segments, tier1_scores,
        segments_needing_deep, tier2_scores, called, vrow>>

an == <<an_segments, an_i, an_calls, an_rows>>

fx == <<fcall, val, an>>

\* run_continuous' signal flag and the second of two concurrent workers
conc == <<shutdown_requested, parked>>

fn == <<etext, conc, fx>>

ext == <<agenda, disc, txn, probes, fn>>

vars == <<status, video_url, mdate, audio, tfile, tfile2, dfile, trec, vrec, arec, log,
          opc, bphase, pending, bsize, ninv, wstage, cur, wpc, wres,
          nwrites, nevents, advanced, errors, cpc, max_retries, permanently_failed,
          attempts, fixing, crashes, ops, agenda, pages, rerun, stats_new,
          stats_updated, apc, aclip, aitems, arows, ncalls,
          ppc, concurrency, prange, sem, ptask, presults, discovered, pidx,
          etext, shutdown_requested, parked, fcall, primary, secondary, overall_wer,
          divergent_segments,
          tier1_scores, segments_needing_deep, tier2_scores, called, vrow,
          an_segments, an_i, an_calls, an_rows>>

\* ----------------------------------------------------------------- helpers
Range(s) == {s[i] : i \in 1..Len(s)}

Take(s, n) == SubSeq(s, 1, IF n < Len(s) THEN n ELSE Len(s))

\* config / schema: status TEXT DEFAULT 'discovered'
DefaultStatus == "discovered"

\* variant: analyze_batch querying for "transcribed"
InputStatusMut(stage) ==
    CASE stage = "download"   -> "discovered"
      [] stage = "transcribe" -> "downloaded"
      [] stage = "diarize"    -> "transcribed"
      [] stage = "validate"   -> "transcribed"
      [] stage = "analyze"    -> "transcribed"

\* the status each batch function queries for
InputStatus(stage) ==
    CASE stage = "download"   -> "discovered"
      [] stage = "transcribe" -> "downloaded"
      [] stage = "diarize"    -> "transcribed"
      [] stage = "validate"   -> "transcribed"
      [] stage = "analyze"    -> "validated"

\* the status a worker writes before it starts its work
IngStatus(stage) ==
    CASE stage = "download"   -> "downloading"
      [] stage = "transcribe" -> "transcribing"
      [] stage = "validate"   -> "validating"
      [] stage = "analyze"    -> "analyzing"

\* the status a worker writes on success
OutputStatus(stage) ==
    CASE stage = "download"   -> "downloaded"
      [] stage = "transcribe" -> "transcribed"
      [] stage = "validate"   -> "validated"
      [] stage = "analyze"    -> "analyzed"

\* variant: the failed rows are listed with the rows of the status asked for
get_meetings_by_statusOrFailed(s) ==
    LET S == {c \in Clips : status[c] \in {s, "failed"}}
        n == Cardinality(S)
    IN {f \in [1..n -> S] :
          /\ \A i, j \in 1..n : i # j => f[i] # f[j]
          /\ \A i, j \in 1..n : i < j => mdate[f[i]] >= mdate[f[j]]}

\* get_meetings_by_status: SELECT ... WHERE status = ? ORDER BY meeting_date DESC.
\* Rows of equal date come in an order SQL leaves open.
get_meetings_by_status(s) ==
    LET S == {c \in Clips : status[c] = s}
        n == Cardinality(S)
    IN {f \in [1..n -> S] :
          /\ \A i, j \in 1..n : i # j => f[i] # f[j]
          /\ \A i, j \in 1..n : i < j => mdate[f[i]] >= mdate[f[j]]}

\* log_processing(clip_id, stage, status, message)
log_processing(c, stage, st) == [log EXCEPT ![c] = Append(@, <<stage, st>>)]

\* variant: an UPDATE without its WHERE clause
update_meeting_statusAll(c, st) == [x \in Clips |-> st]

\* update_meeting_status(clip_id, status)
update_meeting_status(c, st) == [status EXCEPT ![c] = st]

\* position of a stage in run_full_pipeline
StageIndex(stage) == CHOOSE i \in 1..Len(PipelineStages) : PipelineStages[i] = stage

\* the stage run_full_pipeline turns to after `stage`; "idle" after the last
NextStage(stage) ==
    IF StageIndex(stage) = Len(PipelineStages) THEN "idle"
    ELSE PipelineStages[StageIndex(stage) + 1]

\* no batch function, worker, loop or other call is running
InitRun ==
    /\ opc = "idle"
    /\ bphase = "enter"
    /\ pending = <<>>
    /\ bsize = 1
    /\ ninv = 0
    /\ wstage = "none"
    /\ cur = 1
    /\ wpc = "none"
    /\ wres = "none"
    /\ nwrites = 0
    /\ nevents = 0
    /\ advanced = {}
    /\ errors = FALSE
    /\ cpc = "off"
    /\ max_retries = 1
    /\ permanently_failed = {}
    /\ attempts = [c \in Clips |-> 0]
    /\ fixing = 0
    /\ crashes = 0
    /\ ops = 0
    /\ agenda = [c \in Clips |-> <<>>]
    /\ pages = [c \in Clips |-> "none"]
    /\ rerun = FALSE
    /\ stats_new = 0
    /\ stats_updated = 0
    /\ apc = "off"
    /\ aclip = 1
    /\ aitems = <<>>
    /\ arows = <<>>
    /\ ncalls = 0
    /\ ppc = "off"
    /\ concurrency = 1
    /\ prange = 0
    /\ sem = 0
    /\ ptask = [i \in ProbeIds |-> "done"]
    /\ presults = [i \in ProbeIds |-> "pending"]
    /\ discovered = <<>>
    /\ pidx = 1
    /\ etext = NoText
    /\ shutdown_requested = FALSE
    /\ parked = NoWorker
    /\ fcall = NoCall
    /\ primary = None
    /\ secondary = None
    /\ overall_wer = Zero
    /\ divergent_segments = <<>>
    /\ tier1_scores = <<>>
    /\ segments_needing_deep = <<>>
    /\ tier2_scores = <<>>
    /\ called = <<>>
    /\ vrow = NoRow
    /\ an_segments = <<>>
    /\ an_i = <<1, 1>>
    /\ an_calls = <<>>
    /\ an_rows = <<>>

Init ==
    /\ status = [c \in Clips |-> "absent"]
    /\ video_url = [c \in Clips |-> FALSE]
    /\ mdate = [c \in Clips |-> 0]
    /\ audio = [c \in Clips |-> "none"]
    /\ tfile = [c \in Clips |-> "none"]
    /\ tfile2 = [c \in Clips |-> "none"]
    /\ dfile = [c \in Clips |-> "none"]
    /\ trec = [c \in Clips |-> FALSE]
    /\ vrec = [c \in Clips |-> FALSE]
    /\ arec = [c \in Clips |-> 0]
    /\ log = [c \in Clips |-> <<>>]
    /\ InitRun

\* ------------------------------------------------------- run_full_pipeline
\* number of diarize "started" rows of a clip
DiarizeRuns(c) == Cardinality({i \in 1..Len(log[c]) : log[c][i] = <<"diarize", "started">>})

\* run_full_pipeline is called (setup_pipeline changes no row)
StartPipeline ==
    /\ opc = "idle" /\ wstage = "none" /\ wres = "none" /\ cpc = "off" /\ fixing = 0
    /\ \A c \in Clips : DiarizeRuns(c) < MaxDiarizeRuns
    /\ opc' = PipelineStages[1]
    /\ bphase' = "enter"
    /\ pending' = <<>>
    /\ errors' = FALSE
    /\ wres' = "none"
    /\ UNCHANGED <<ledger, files, bsize, ninv, wstage, cur, wpc, nwrites, nevents, advanced, cont, ext>>

\* a skip_* flag is set: the stage is passed over
SkipStage ==
    /\ opc \notin {"idle", "reports"} /\ bphase = "enter"
    /\ opc' = NextStage(opc)
    /\ UNCHANGED <<ledger, files, bphase, pending, bsize, ninv, errors, worker, cont, ext>>

\* the ascending sequence of the members of S (range(start_id, end_id + 1))
RECURSIVE Ascending(_)
Ascending(S) ==
    IF S = {} THEN <<>>
    ELSE LET m == CHOOSE x \in S : \A y \in S : x <= y
         IN <<m>> \o Ascending(S \ {m})

\* what gather(return_exceptions=True) holds for a finished probe: a
\* MeetingMetadata of a type in filter_types, one of another type, None
\* (404, other status, timeout, request error, no title), an exception
ProbeOutcomes == {"meeting", "filtered", "none", "exc"}

\* discover_meetings_in_range(start_id, end_id, concurrency=...): the
\* semaphore is made and the tasks are handed to gather
ProbeStart ==
    /\ opc = "idle" /\ wstage = "none" /\ wres = "none" /\ cpc = "off" /\ fixing = 0
    /\ apc = "off" /\ ppc = "off"
    /\ \E c \in 1..MaxConcurrency, n \in 0..NumProbes :
         /\ concurrency' = c
         /\ sem' = c
         /\ prange' = n
         /\ ptask' = [i \in ProbeIds |-> IF i <= n THEN "created" ELSE "done"]
    /\ presults' = [i \in ProbeIds |-> "pending"]
    /\ discovered' = <<>>
    /\ pidx' = 1
    /\ ppc' = "gather"
    /\ UNCHANGED <<ledger, files, batch, worker, cont, agenda, disc, txn, fn>>

\* variant: a semaphore that never blocks
SemFreeAlways(v) == TRUE

\* asyncio.Semaphore: acquire goes on without waiting
SemFree(v) == v > 0

\* discover_with_semaphore: async with semaphore is entered and
\* fetch_clip_page sends the request
ProbeAcquire ==
    /\ ppc = "gather"
    /\ \E i \in ProbeIds :
         /\ ptask[i] = "created"
         /\ SemFree(sem)
         /\ ptask' = [ptask EXCEPT ![i] = "fetching"]
    /\ sem' = sem - 1
    /\ UNCHANGED <<ledger, files, batch, worker, cont, agenda, disc, txn, fn,
                   ppc, concurrency, prange, presults, discovered, pidx>>

\* discover_single_clip returns or raises: the semaphore is released and
\* gather keeps the value or the exception
ProbeFinish ==
    /\ ppc = "gather"
    /\ \E i \in ProbeIds, r \in ProbeOutcomes :
         /\ ptask[i] = "fetching"
         /\ ptask' = [ptask EXCEPT ![i] = "done"]
         /\ presults' = [presults EXCEPT ![i] = r]
    /\ sem' = sem + 1
    /\ UNCHANGED <<ledger, files, batch, worker, cont, agenda, disc, txn, fn,
                   ppc, concurrency, prange, discovered, pidx>>

\* await asyncio.gather(...) returns when every task is done
ProbeGathered ==
    /\ ppc = "gather"
    /\ \A i \in ProbeIds : ptask[i] = "done"
    /\ ppc' = "collect"
    /\ UNCHANGED <<ledger, files, batch, worker, cont, agenda, disc, txn, fn,
                   concurrency, prange, sem, ptask, presults, discovered, pidx>>

\* variant: only None results are passed over
KeepsNotNone(r) == r # "none"

\* the loop over results: not an Exception, not None, type in filter_types
Keeps(r) == r # "exc" /\ r # "none" /\ r # "filtered"

\* the loop over results, one result
ProbeCollect ==
    /\ ppc = "collect" /\ pidx <= prange
    /\ discovered' = IF Keeps(presults[pidx]) THEN Append(discovered, pidx) ELSE discovered
    /\ pidx' = pidx + 1
    /\ UNCHANGED <<ledger, files, batch, worker, cont, agenda, disc, txn, fn,
                   ppc, concurrency, prange, sem, ptask, presults>>

\* return discovered
ProbeReturn ==
    /\ ppc = "collect" /\ pidx > prange
    /\ ppc' = "returned"
    /\ UNCHANGED <<ledger, files, batch, worker, cont, agenda, disc, txn, fn,
                   concurrency, prange, sem, ptask, presults, discovered, pidx>>

\* the caller has the list
ProbeEnd ==
    /\ ppc = "returned"
    /\ ppc' = "off"
    /\ concurrency' = 1 /\ prange' = 0 /\ sem' = 0
    /\ ptask' = [i \in ProbeIds |-> "done"]
    /\ presults' = [i \in ProbeIds |-> "pending"]
    /\ discovered' = <<>>
    /\ pidx' = 1
    /\ UNCHANGED <<ledger, files, batch, worker, cont, agenda, disc, txn, fn>>

\* what a clip's page parses to: no meeting (404, an error, no title, a
\* type outside the filter), a meeting without or with a stream URL
PageStates == {"none", "nourl", "url"}

\* the agenda items parse_clip_page finds on the clip's page: the items
\* 1..MaxItems (clip 1) or none (clip 2)
PageItems(c) == IF c % 2 = 1 THEN [i \in 1..MaxItems |-> i] ELSE <<>>

\* discover_meetings_in_range: the clips whose probe succeeded and whose
\* type passes the filter, in clip_id order
DiscoverRange ==
    /\ opc = "discovery" /\ bphase = "enter"
    /\ \E pg \in [Clips -> PageStates] :
         /\ pages' = pg
         /\ pending' = Ascending({c \in Clips : pg[c] # "none"})
    /\ bphase' = "loop"
    /\ stats_new' = 0 /\ stats_updated' = 0
    /\ UNCHANGED <<ledger, files, opc, bsize, ninv, errors, worker, cont, agenda, rerun, txn, probes, fn>>

\* get_meeting returns a row
get_meeting(c) == status[c] # "absent"

\* variant: the stored URL not looked at
NeedsUrlParsed(parsed, stored) == parsed

\* variant: the URL written for every existing meeting
NeedsUrlAlways(parsed, stored) == TRUE

\* save_discovered_meetings: meeting.video_url and not existing.get("video_url")
NeedsUrl(parsed, stored) == parsed /\ ~stored

\* update_meeting_video_url
update_meeting_video_url(c, url) == [video_url EXCEPT ![c] = url]

\* save_discovered_meetings, one meeting: the row exists
SaveExisting ==
    /\ opc = "discovery" /\ bphase = "loop" /\ pending # <<>>
    /\ LET c == Head(pending)
           parsed_url == pages[c] = "url"
       IN
         /\ get_meeting(c)
         /\ IF NeedsUrl(parsed_url, video_url[c])
            THEN /\ video_url' = update_meeting_video_url(c, parsed_url)
                 /\ stats_updated' = stats_updated + 1
            ELSE UNCHANGED <<video_url, stats_updated>>
    /\ pending' = Tail(pending)
    /\ UNCHANGED <<status, mdate, trec, vrec, arec, log, files, opc, bphase, bsize, ninv, errors,
                   worker, cont, agenda, pages, rerun, stats_new, txn, probes, fn>>

\* save_discovered_meetings, one meeting: insert_meeting
SaveNew ==
    /\ opc = "discovery" /\ bphase = "loop" /\ pending # <<>>
    /\ LET c == Head(pending) IN
         /\ ~get_meeting(c)
         /\ status' = [status EXCEPT ![c] = DefaultStatus]
         /\ video_url' = [video_url EXCEPT ![c] = pages[c] = "url"]
         /\ mdate' = [mdate EXCEPT ![c] = MeetingDate(c)]
    /\ stats_new' = stats_new + 1
    /\ bphase' = "inserted"
    /\ UNCHANGED <<trec, vrec, arec, log, files, opc, pending, bsize, ninv, errors, worker, cont,
                   agenda, pages, rerun, stats_updated, txn, probes, fn>>

\* save_discovered_meetings, one meeting: insert_agenda_items is called
\* for the inserted meeting (if meeting.agenda_items)
SaveNewAgenda ==
    /\ opc = "discovery" /\ bphase = "inserted" /\ apc = "off" /\ wres # "raise"
    /\ PageItems(Head(pending)) # <<>>
    /\ aclip' = Head(pending)
    /\ aitems' = PageItems(Head(pending))
    /\ arows' = agenda[Head(pending)]
    /\ apc' = "delete"
    /\ UNCHANGED <<ledger, files, batch, worker, cont, agenda, disc, ncalls, probes, fn>>

\* save_discovered_meetings, one meeting: the event after the insert
SaveNewLog ==
    /\ opc = "discovery"
    /\ \/ bphase = "inserted" /\ PageItems(Head(pending)) = <<>>
       \/ bphase = "itemized"
    /\ log' = log_processing(Head(pending), "discovery", "completed")
    /\ pending' = Tail(pending)
    /\ bphase' = "loop"
    /\ UNCHANGED <<status, video_url, mdate, trec, vrec, arec, files, opc, bsize, ninv, errors, worker, cont, ext>>

\* ------------------------------------------------------ insert_agenda_items
\* the lists of agenda items a caller may pass; item 0 is a value that is
\* no dict (parse_clip_page builds dicts only)
ItemLists == UNION {[1..n -> 0..MaxItems] : n \in 0..MaxItems}

\* a caller of its own calls insert_agenda_items(clip_id, items): the
\* connection is opened
AgendaCall ==
    /\ opc = "idle" /\ wstage = "none" /\ wres = "none" /\ cpc = "off" /\ fixing = 0
    /\ apc = "off" /\ ppc = "off" /\ ncalls < MaxCalls
    /\ \E c \in Clips, items \in ItemLists :
         /\ aclip' = c
         /\ aitems' = items
         /\ arows' = agenda[c]
    /\ apc' = "delete"
    /\ ncalls' = ncalls + 1
    /\ UNCHANGED <<ledger, files, batch, worker, cont, agenda, disc, probes, fn>>

\* variant: insert_agenda_items without its DELETE
delete_agenda_itemsKeep(rows) == rows

\* DELETE FROM agenda_items WHERE clip_id = ?
delete_agenda_items(rows) == <<>>

\* insert_agenda_items: the DELETE statement
AgendaDelete ==
    /\ apc = "delete"
    /\ arows' = delete_agenda_items(arows)
    /\ apc' = "insert"
    /\ UNCHANGED <<ledger, files, batch, worker, cont, agenda, disc, aclip, aitems, ncalls, probes, fn>>

\* item.get(...) of the INSERT parameters returns (the item is a dict)
IsDict(item) == item # 0

\* insert_agenda_items: the INSERT of the next item, or the AttributeError
\* of item.get
AgendaInsertRow ==
    /\ apc = "insert" /\ Len(arows) < Len(aitems)
    /\ LET item == aitems[Len(arows) + 1] IN
         IF IsDict(item)
         THEN arows' = Append(arows, item) /\ UNCHANGED apc
         ELSE apc' = "rollback" /\ UNCHANGED arows
    /\ UNCHANGED <<ledger, files, batch, worker, cont, agenda, disc, aclip, aitems, ncalls, probes, fn>>

\* get_db: conn.commit() after the with block, then conn.close()
AgendaCommit ==
    /\ apc = "insert" /\ Len(arows) = Len(aitems)
    /\ agenda' = [agenda EXCEPT ![aclip] = arows]
    /\ apc' = "off" /\ aclip' = 1 /\ aitems' = <<>> /\ arows' = <<>>
    /\ bphase' = IF opc = "discovery" THEN "itemized" ELSE bphase
    /\ UNCHANGED <<ledger, files, opc, pending, bsize, ninv, errors, worker, cont, disc, ncalls, probes, fn>>

\* get_db: except Exception: conn.rollback(); raise
AgendaRollback ==
    /\ apc = "rollback"
    /\ apc' = "off" /\ aclip' = 1 /\ aitems' = <<>> /\ arows' = <<>>
    /\ UNCHANGED <<ledger, files, batch, worker, cont, agenda, disc, ncalls, probes, fn>>

\* run_discovery is called again over the same range, the pages unchanged,
\* before anything else runs
Rediscover ==
    /\ opc = "discovery" /\ bphase = "loop" /\ pending = <<>> /\ wres # "raise"
    /\ ~rerun
    /\ rerun' = TRUE
    /\ pending' = Ascending({c \in Clips : pages[c] # "none"})
    /\ stats_new' = 0 /\ stats_updated' = 0
    /\ UNCHANGED <<ledger, files, opc, bphase, bsize, ninv, errors, worker, cont, agenda, pages, txn, probes, fn>>

\* variant: the list without the [:batch_size] slice
BatchListMut(stage, order, bs) ==
    IF stage = "diarize"
    THEN SelectSeq(order, LAMBDA c : dfile[c] = "none")
    ELSE order

\* the list a batch function works through
BatchList(stage, order, bs) ==
    IF stage = "diarize"
    THEN SelectSeq(Take(order, bs), LAMBDA c : dfile[c] = "none")
    ELSE Take(order, bs)

\* download_batch, transcribe_batch, diarize_batch, validate_batch,
\* analyze_batch: the query and the [:batch_size] slice
BatchSelect ==
    /\ opc \in WorkerStages /\ bphase = "enter"
    /\ \E bs \in 1..MaxBatch :
         /\ bsize' = bs
         /\ \E order \in get_meetings_by_status(InputStatus(opc)) :
              pending' = BatchList(opc, order, bs)
    /\ ninv' = 0
    /\ bphase' = "loop"
    /\ UNCHANGED <<ledger, files, opc, errors, worker, cont, ext>>

\* download_batch: a listed meeting without video_url is failed in place
BatchNoUrl ==
    /\ opc = "download" /\ bphase = "loop" /\ wstage = "none" /\ wres # "raise"
    /\ pending # <<>>
    /\ ~video_url[Head(pending)]
    /\ status' = update_meeting_status(Head(pending), "failed")
    /\ bphase' = "nourl"
    /\ UNCHANGED <<video_url, mdate, trec, vrec, arec, log, files, opc, pending, bsize, ninv, errors, worker, cont, ext>>

\* download_batch: the event of the meeting failed in place
BatchNoUrlLog ==
    /\ opc = "download" /\ bphase = "nourl"
    /\ log' = log_processing(Head(pending), "download", "failed")
    /\ pending' = Tail(pending)
    /\ bphase' = "loop"
    /\ UNCHANGED <<status, video_url, mdate, trec, vrec, arec, files, opc, bsize, ninv, errors, worker, cont, ext>>

\* a batch function calls its worker on the next listed meeting
BatchInvoke ==
    /\ opc \in WorkerStages /\ bphase = "loop" /\ wstage = "none" /\ wres # "raise"
    /\ pending # <<>>
    /\ opc = "download" => video_url[Head(pending)]
    /\ wstage' = opc
    /\ cur' = Head(pending)
    /\ wpc' = "entry"
    /\ wres' = "none"
    /\ nwrites' = 0
    /\ nevents' = 0
    /\ pending' = Tail(pending)
    /\ ninv' = ninv + 1
    /\ UNCHANGED <<ledger, files, opc, bphase, bsize, errors, advanced, cont, ext>>

\* a batch function returns: run_full_pipeline turns to the next stage
BatchDone ==
    /\ opc \in WorkerStages \cup {"discovery"}
    /\ bphase = "loop" /\ wstage = "none" /\ wres # "raise"
    /\ pending = <<>>
    /\ opc' = NextStage(opc)
    /\ bphase' = "enter"
    /\ bsize' = 1 /\ ninv' = 0
    /\ cur' = 1 /\ wres' = "none" /\ nwrites' = 0 /\ nevents' = 0
    /\ pages' = [c \in Clips |-> "none"]
    /\ rerun' = FALSE /\ stats_new' = 0 /\ stats_updated' = 0
    /\ UNCHANGED <<ledger, files, pending, errors, wstage, wpc, advanced, cont, agenda, txn, probes, fn>>

\* the last stage, skipped or not: generate_all_reports reads the ledger
\* and writes report files only
Reports ==
    /\ opc = "reports" /\ bphase = "enter"
    /\ opc' = "idle"
    /\ UNCHANGED <<ledger, files, bphase, pending, bsize, ninv, errors, worker, cont, ext>>

\* run_full_pipeline: except Exception -> result.errors, then return
PipelineExcept ==
    /\ opc # "idle" /\ wstage = "none" /\ wres = "raise"
    /\ errors' = TRUE
    /\ opc' = "idle"
    /\ bphase' = "enter"
    /\ pending' = <<>>
    /\ bsize' = 1 /\ ninv' = 0
    /\ cur' = 1 /\ wres' = "none" /\ nwrites' = 0 /\ nevents' = 0
    /\ pages' = [c \in Clips |-> "none"]
    /\ rerun' = FALSE /\ stats_new' = 0 /\ stats_updated' = 0
    /\ UNCHANGED <<ledger, files, wstage, wpc, advanced, cont, agenda, txn, probes, fn>>

\* the process is interrupted (kill, power loss): only durable state stays
Crash ==
    /\ opc # "idle" \/ wstage # "none" \/ cpc # "off" \/ fixing # 0
    /\ crashes < MaxCrashes
    /\ crashes' = crashes + 1
    /\ opc' = "idle"
    /\ bphase' = "enter"
    /\ pending' = <<>>
    /\ bsize' = 1 /\ ninv' = 0 /\ errors' = FALSE
    /\ wstage' = "none"
    /\ wpc' = "none"
    /\ cur' = 1 /\ wres' = "none" /\ nwrites' = 0 /\ nevents' = 0
    /\ cpc' = "off"
    /\ max_retries' = 1
    /\ permanently_failed' = {}
    /\ attempts' = [c \in Clips |-> 0]
    /\ fixing' = 0
    /\ pages' = [c \in Clips |-> "none"]
    /\ rerun' = FALSE /\ stats_new' = 0 /\ stats_updated' = 0
    /\ apc' = "off" /\ aclip' = 1 /\ aitems' = <<>> /\ arows' = <<>>
    /\ etext' = NoText
    /\ UNCHANGED <<ledger, files, advanced, ops, agenda, ncalls, probes, conc, fx>>

\* ----------------------------------------------------------- stage workers
\* the worker returns r to its caller
Return(r) ==
    /\ wstage' = "none"
    /\ wpc' = "none"
    /\ wres' = r

\* the worker moves on to position p
Goto(p) ==
    /\ wpc' = p
    /\ UNCHANGED <<wstage, wres>>

\* one update_meeting_status(cur, st) of the running worker
WriteStatus(st) ==
    /\ status' = update_meeting_status(cur, st)
    /\ nwrites' = nwrites + 1

\* one log_processing(cur, wstage, st) of the running worker
LogEvent(st) ==
    /\ log' = log_processing(cur, wstage, st)
    /\ nevents' = nevents + 1

\* variant: a probe that takes any existing file
verify_audioExists(a) == a # "none"

\* verify_audio returns info with duration_seconds > 0
verify_audio(a) == a = "ok"

\* variant: download_audio not looking at the output file
OutputNonEmptyMut(a) == TRUE

\* download_audio: output_path.exists() and st_size > 0 (after returncode == 0)
OutputNonEmpty(a) == a \notin {"none", "empty"}

\* download_meeting up to its first ledger write
DownloadEntry ==
    /\ wstage = "download" /\ wpc = "entry"
    /\ \/ /\ status[cur] = "absent"
          /\ Return("fail")
          /\ UNCHANGED <<status, nwrites, advanced>>
       \/ /\ status[cur] # "absent" /\ ~video_url[cur]
          /\ WriteStatus("failed")
          /\ Goto("dl_nourl_log")
          /\ UNCHANGED advanced
       \/ /\ status[cur] # "absent" /\ video_url[cur]
          /\ audio[cur] # "none" /\ verify_audio(audio[cur])
          /\ WriteStatus("downloaded")
          /\ advanced' = advanced \cup {<<cur, "download">>}
          /\ Return("ok")
       \/ /\ status[cur] # "absent" /\ video_url[cur]
          /\ ~(audio[cur] # "none" /\ verify_audio(audio[cur]))
          /\ WriteStatus("downloading")
          /\ Goto("dl_started_log")
          /\ UNCHANGED advanced
    /\ UNCHANGED <<video_url, mdate, trec, vrec, arec, log, files, batch, cur, nevents, cont, ext>>

\* download_meeting / download_audio: the log_processing calls
DownloadLog ==
    /\ wstage = "download"
    /\ \/ /\ wpc = "dl_nourl_log"
          /\ LogEvent("failed")
          /\ Return("fail")
       \/ /\ wpc = "dl_started_log"
          /\ LogEvent("started")
          /\ Goto("dl_ffmpeg")
       \/ /\ wpc = "dl_log_ok"
          /\ LogEvent("completed")
          /\ Goto("dl_flip_ok")
       \/ /\ wpc = "dl_log_fail"
          /\ LogEvent("failed")
          /\ Goto("dl_flip_fail")
    /\ UNCHANGED <<status, video_url, mdate, trec, vrec, arec, files, batch, cur, nwrites, advanced, cont, ext>>

\* what ffmpeg leaves of a meeting's HLS stream when it ends with return
\* code 0 and has written bytes: audio that ffprobe reads (clip 1), or a
\* file that ffprobe rejects or finds of duration 0 (clip 2)
StreamAudio(c) == IF c % 2 = 1 THEN "ok" ELSE "bad"

\* download_audio: subprocess.run(ffmpeg -y ...).  ffmpeg fails before it
\* opens the output, or it truncates the output and then ends with some
\* return code (or the timeout) and some content: nothing, bytes that
\* ffprobe rejects, or audio of positive duration
DownloadFfmpeg ==
    /\ wstage = "download"
    /\ \/ /\ wpc = "dl_ffmpeg"
          /\ \/ Goto("dl_log_fail") /\ UNCHANGED audio
             \/ Goto("dl_ffmpeg_run") /\ audio' = [audio EXCEPT ![cur] = "empty"]
       \/ /\ wpc = "dl_ffmpeg_run"
          /\ \E rc0 \in BOOLEAN, a \in {"empty", "bad", "ok"} :
               /\ rc0 => a \in {"empty", StreamAudio(cur)}
               /\ audio' = [audio EXCEPT ![cur] = a]
               /\ IF rc0 /\ OutputNonEmpty(a) THEN Goto("dl_log_ok") ELSE Goto("dl_log_fail")
    /\ UNCHANGED <<ledger, tfile, tfile2, dfile, batch, cur, nwrites, nevents, advanced, cont, ext>>

\* download_meeting: the status write after download_audio returned
DownloadFlip ==
    /\ wstage = "download"
    /\ \/ /\ wpc = "dl_flip_ok"
          /\ WriteStatus("downloaded")
          /\ advanced' = advanced \cup {<<cur, "download">>}
          /\ Return("ok")
       \/ /\ wpc = "dl_flip_fail"
          /\ WriteStatus("failed")
          /\ UNCHANGED advanced
          /\ Return("fail")
    /\ UNCHANGED <<video_url, mdate, trec, vrec, arec, log, files, batch, cur, nevents, cont, ext>>

\* transcribe_meeting up to its first ledger write
TranscribeEntry ==
    /\ wstage = "transcribe" /\ wpc = "entry"
    /\ \/ /\ status[cur] = "absent"
          /\ Return("fail")
          /\ UNCHANGED <<status, nwrites>>
       \/ /\ status[cur] # "absent" /\ audio[cur] = "none"
          /\ WriteStatus("failed")
          /\ Goto("tr_nf_log")
       \/ /\ status[cur] # "absent" /\ audio[cur] # "none"
          /\ WriteStatus("transcribing")
          /\ Goto("tr_started_log")
    /\ UNCHANGED <<video_url, mdate, trec, vrec, arec, log, files, batch, cur, nevents, advanced, cont, ext>>

\* transcribe_meeting: the log_processing calls
TranscribeLog ==
    /\ wstage = "transcribe"
    /\ \/ /\ wpc = "tr_nf_log"
          /\ LogEvent("failed")
          /\ Return("missing")
       \/ /\ wpc = "tr_started_log"
          /\ LogEvent("started")
          /\ Goto("tr_engines")
       \/ /\ wpc = "tr_done_log"
          /\ LogEvent("completed")
          /\ Return("ok")
       \/ /\ wpc = "tr_exc_log"
          /\ LogEvent("failed")
          /\ Return("fail")
    /\ UNCHANGED <<status, video_url, mdate, trec, vrec, arec, files, batch, cur, nwrites, advanced, cont, ext>>

\* transcribe_with_both_models raises, or returns with the text each engine
\* produced (held in etext until the status write) and save_transcript_to_file
\* writes the two JSON files one after the other (dual_model = True, the
\* default): open(path, "w") truncates, json.dump completes or raises
TranscribeFiles ==
    /\ wstage = "transcribe"
    /\ \/ /\ wpc = "tr_engines"
          /\ \/ Goto("tr_exc") /\ UNCHANGED <<tfile, tfile2, etext>>
             \/ /\ Goto("tr_save1")
                /\ tfile' = [tfile EXCEPT ![cur] = "corrupt"]
                /\ etext' \in EngineResults
                /\ UNCHANGED tfile2
       \/ /\ wpc = "tr_save1"
          /\ \/ Goto("tr_open2") /\ tfile' = [tfile EXCEPT ![cur] = "ok"]
             \/ Goto("tr_exc") /\ UNCHANGED tfile
          /\ UNCHANGED <<tfile2, etext>>
       \/ /\ wpc = "tr_open2"
          /\ tfile2' = [tfile2 EXCEPT ![cur] = "corrupt"]
          /\ UNCHANGED <<tfile, etext>>
          /\ Goto("tr_save2")
       \/ /\ wpc = "tr_save2"
          /\ \/ Goto("tr_insert") /\ tfile2' = [tfile2 EXCEPT ![cur] = "ok"]
             \/ Goto("tr_exc") /\ UNCHANGED tfile2
          /\ UNCHANGED <<tfile, etext>>
    /\ UNCHANGED <<ledger, audio, dfile, batch, cur, nwrites, nevents, advanced, cont,
                   agenda, disc, txn, probes, conc, fx>>

\* transcribe_meeting: insert_transcript
TranscribeInsert ==
    /\ wstage = "transcribe" /\ wpc = "tr_insert"
    /\ trec' = [trec EXCEPT ![cur] = TRUE]
    /\ Goto("tr_flip")
    /\ UNCHANGED <<status, video_url, mdate, vrec, arec, log, files, batch, cur, nwrites, nevents, advanced, cont, ext>>

\* transcribe_meeting: the status write on success and in the except branch
TranscribeFlip ==
    /\ wstage = "transcribe"
    /\ \/ /\ wpc = "tr_flip"
          /\ WriteStatus("transcribed")
          /\ advanced' = advanced \cup {<<cur, "transcribe">>}
          /\ Goto("tr_done_log")
       \/ /\ wpc = "tr_exc"
          /\ WriteStatus("failed")
          /\ UNCHANGED advanced
          /\ Goto("tr_exc_log")
    /\ etext' = NoText
    /\ UNCHANGED <<video_url, mdate, trec, vrec, arec, log, files, batch, cur, nevents, cont,
                   agenda, disc, txn, probes, conc, fx>>

\* load_transcript_file: json.load raises on a truncated file
LoadRaises(f) == f = "corrupt"

\* validate_meeting up to its first ledger write: both files are loaded
\* before the try block
ValidateEntry ==
    /\ wstage = "validate" /\ wpc = "entry"
    /\ \/ /\ status[cur] = "absent"
          /\ Return("fail")
          /\ UNCHANGED <<status, nwrites>>
       \/ /\ status[cur] # "absent"
          /\ LoadRaises(tfile[cur]) \/ LoadRaises(tfile2[cur])
          /\ Return("raise")
          /\ UNCHANGED <<status, nwrites>>
       \/ /\ status[cur] # "absent"
          /\ ~LoadRaises(tfile[cur]) /\ ~LoadRaises(tfile2[cur])
          /\ tfile[cur] = "none"
          /\ Return("missing")
          /\ UNCHANGED <<status, nwrites>>
       \/ /\ status[cur] # "absent"
          /\ tfile[cur] = "ok" /\ ~LoadRaises(tfile2[cur])
          /\ WriteStatus("validating")
          /\ Goto("va_started_log")
    /\ UNCHANGED <<video_url, mdate, trec, vrec, arec, log, files, batch, cur, nevents, advanced, cont, ext>>

\* validate_meeting: the log_processing calls
ValidateLog ==
    /\ wstage = "validate"
    /\ \/ /\ wpc = "va_started_log"
          /\ LogEvent("started")
          /\ Goto("va_work")
       \/ /\ wpc = "va_done_log"
          /\ LogEvent("completed")
          /\ Return("ok")
       \/ /\ wpc = "va_exc_log"
          /\ LogEvent("failed")
          /\ Return("fail")
    /\ UNCHANGED <<status, video_url, mdate, trec, vrec, arec, files, batch, cur, nwrites, advanced, cont, ext>>

\* validate_meeting: the comparison and the two LLM tiers raise, or
\* insert_validation stores the record
ValidateWork ==
    /\ wstage = "validate" /\ wpc = "va_work"
    /\ \/ Goto("va_exc") /\ UNCHANGED vrec
       \/ Goto("va_flip") /\ vrec' = [vrec EXCEPT ![cur] = TRUE]
    /\ UNCHANGED <<status, video_url, mdate, trec, arec, log, files, batch, cur, nwrites, nevents, advanced, cont, ext>>

\* validate_meeting: the status write on success and in the except branch
ValidateFlip ==
    /\ wstage = "validate"
    /\ \/ /\ wpc = "va_flip"
          /\ WriteStatus("validated")
          /\ advanced' = advanced \cup {<<cur, "validate">>}
          /\ Goto("va_done_log")
       \/ /\ wpc = "va_exc"
          /\ WriteStatus("failed")
          /\ UNCHANGED advanced
          /\ Goto("va_exc_log")
    /\ UNCHANGED <<video_url, mdate, trec, vrec, arec, log, files, batch, cur, nevents, cont, ext>>

\* analyze_meeting up to its first ledger write
AnalyzeEntry ==
    /\ wstage = "analyze" /\ wpc = "entry"
    /\ \/ /\ status[cur] = "absent"
          /\ Return("fail")
          /\ UNCHANGED <<status, nwrites>>
       \/ /\ status[cur] # "absent" /\ ~trec[cur]
          /\ Return("missing")
          /\ UNCHANGED <<status, nwrites>>
       \/ /\ status[cur] # "absent" /\ trec[cur]
          /\ WriteStatus("analyzing")
          /\ Goto("an_started_log")
    /\ UNCHANGED <<video_url, mdate, trec, vrec, arec, log, files, batch, cur, nevents, advanced, cont, ext>>

\* analyze_meeting: the log_processing calls
AnalyzeLog ==
    /\ wstage = "analyze"
    /\ \/ /\ wpc = "an_started_log"
          /\ LogEvent("started")
          /\ Goto("an_segment")
       \/ /\ wpc = "an_done_log"
          /\ LogEvent("completed")
          /\ Return("ok")
       \/ /\ wpc = "an_exc_log"
          /\ LogEvent("failed")
          /\ Return("fail")
    /\ UNCHANGED <<status, video_url, mdate, trec, vrec, arec, files, batch, cur, nwrites, advanced, cont, ext>>

\* segment_meeting, called by analyze_meeting: its own events, "started"
\* and then "completed" (segments found), nothing (none found) or "failed"
AnalyzeSegment ==
    /\ wstage = "analyze" /\ wpc = "an_segment"
    /\ \E r \in {<<>>, <<(<<"segment", "completed">>)>>, <<(<<"segment", "failed">>)>>} :
         log' = [log EXCEPT ![cur] = (@ \o <<(<<"segment", "started">>)>>) \o r]
    /\ Goto("an_work")
    /\ UNCHANGED <<status, video_url, mdate, trec, vrec, arec, files, batch, cur, nwrites, nevents, advanced, cont, ext>>

\* insert_analysis: INSERT INTO analysis, a new row with its own id
insert_analysis(c) == [arec EXCEPT ![c] = @ + 1]

\* analyze_meeting: the loop over segments and types raises, or it ends
\* having stored an analysis row of a type and segment or none
\* (call_ollama_analysis may return None, short segments are skipped)
AnalyzeWork ==
    /\ wstage = "analyze" /\ wpc = "an_work"
    /\ Goto("an_exc") \/ Goto("an_flip")
    /\ \/ UNCHANGED arec
       \/ arec[cur] < MaxRows /\ arec' = insert_analysis(cur)
    /\ UNCHANGED <<status, video_url, mdate, trec, vrec, log, files, batch, cur, nwrites, nevents, advanced, cont, ext>>

\* analyze_meeting: the status write on success and in the except branch
AnalyzeFlip ==
    /\ wstage = "analyze"
    /\ \/ /\ wpc = "an_flip"
          /\ WriteStatus("analyzed")
          /\ advanced' = advanced \cup {<<cur, "analyze">>}
          /\ Goto("an_done_log")
       \/ /\ wpc = "an_exc"
          /\ WriteStatus("failed")
          /\ UNCHANGED advanced
          /\ Goto("an_exc_log")
    /\ UNCHANGED <<video_url, mdate, trec, vrec, arec, log, files, batch, cur, nevents, cont, ext>>

\* diarize_meeting up to its "started" event: the transcript is loaded
\* before the try block
DiarizeEntry ==
    /\ wstage = "diarize" /\ wpc = "entry"
    /\ \/ /\ status[cur] = "absent"
          /\ Return("fail")
          /\ UNCHANGED <<log, nevents>>
       \/ /\ status[cur] # "absent"
          /\ audio[cur] = "none" \/ tfile[cur] = "none"
          /\ Return("missing")
          /\ UNCHANGED <<log, nevents>>
       \/ /\ status[cur] # "absent"
          /\ audio[cur] # "none" /\ LoadRaises(tfile[cur])
          /\ Return("raise")
          /\ UNCHANGED <<log, nevents>>
       \/ /\ status[cur] # "absent"
          /\ audio[cur] # "none" /\ tfile[cur] = "ok"
          /\ LogEvent("started")
          /\ Goto("di_work")
    /\ UNCHANGED <<status, video_url, mdate, trec, vrec, arec, files, batch, cur, nwrites, advanced, cont, ext>>

\* diarize_meeting: the four identification methods raise, or the result
\* file is opened for writing and then json.dump completes or raises
DiarizeWork ==
    /\ wstage = "diarize"
    /\ \/ /\ wpc = "di_work"
          /\ \/ Goto("di_exc_log") /\ UNCHANGED dfile
             \/ Goto("di_save") /\ dfile' = [dfile EXCEPT ![cur] = "corrupt"]
       \/ /\ wpc = "di_save"
          /\ \/ Goto("di_done_log") /\ dfile' = [dfile EXCEPT ![cur] = "ok"]
             \/ Goto("di_exc_log") /\ UNCHANGED dfile
    /\ UNCHANGED <<ledger, audio, tfile, tfile2, batch, cur, nwrites, nevents, advanced, cont, ext>>

\* variant: the failure is also written to the meeting's status
DiarizeLogStatus ==
    /\ wstage = "diarize"
    /\ \/ /\ wpc = "di_done_log"
          /\ LogEvent("completed")
          /\ Return("ok")
          /\ UNCHANGED status
       \/ /\ wpc = "di_exc_log"
          /\ LogEvent("failed")
          /\ Return("fail")
          /\ status' = update_meeting_status(cur, "failed")
    /\ UNCHANGED <<video_url, mdate, trec, vrec, arec, files, batch, cur, nwrites, advanced, cont, ext>>

\* diarize_meeting: the closing log_processing call
DiarizeLog ==
    /\ wstage = "diarize"
    /\ \/ /\ wpc = "di_done_log"
          /\ LogEvent("completed")
          /\ Return("ok")
       \/ /\ wpc = "di_exc_log"
          /\ LogEvent("failed")
          /\ Return("fail")
    /\ UNCHANGED <<status, video_url, mdate, trec, vrec, arec, files, batch, cur, nwrites, advanced, cont, ext>>

WorkerStep ==
    \/ DownloadEntry \/ DownloadLog \/ DownloadFfmpeg \/ DownloadFlip
    \/ TranscribeEntry \/ TranscribeLog \/ TranscribeFiles \/ TranscribeInsert \/ TranscribeFlip
    \/ ValidateEntry \/ ValidateLog \/ ValidateWork \/ ValidateFlip
    \/ AnalyzeEntry \/ AnalyzeLog \/ AnalyzeSegment \/ AnalyzeWork \/ AnalyzeFlip
    \/ DiarizeEntry \/ DiarizeWork \/ DiarizeLog

PipelineStep ==
    \/ StartPipeline \/ SkipStage \/ DiscoverRange \/ SaveExisting \/ SaveNew \/ SaveNewLog
    \/ SaveNewAgenda \/ AgendaDelete \/ AgendaInsertRow \/ AgendaCommit
    \/ BatchSelect \/ BatchNoUrl \/ BatchNoUrlLog \/ BatchInvoke \/ BatchDone
    \/ Reports

\* run_full_pipeline, called any number of times with any skip flags and
\* batch sizes, each call running to its end
Next ==
    \/ PipelineStep
    \/ WorkerStep

Spec == Init /\ [][Next]_vars

\* the same, the process being interrupted at any point
NextCrash ==
    \/ Next
    \/ Crash

SpecCrash == Init /\ [][NextCrash]_vars

\* the batch pipeline, run_discovery being called a second time
NextRerun ==
    \/ Next
    \/ Rediscover

SpecRerun == Init /\ [][NextRerun]_vars

AgendaStep ==
    \/ AgendaCall \/ AgendaDelete \/ AgendaInsertRow \/ AgendaCommit \/ AgendaRollback

\* insert_agenda_items called any number of times, nothing else running
SpecAgenda == Init /\ [][AgendaStep]_vars

ProbeStep ==
    \/ ProbeStart \/ ProbeAcquire \/ ProbeFinish \/ ProbeGathered
    \/ ProbeCollect \/ ProbeReturn \/ ProbeEnd

\* discover_meetings_in_range: the probes of one call run concurrently
SpecProbes == Init /\ [][ProbeStep]_vars

\* ------------------------------------------------- workers called directly
\* a caller other than the batch functions (scripts/run_diarize.py, an
\* interactive session) calls a worker function with a clip_id
DirectInvoke ==
    /\ opc = "idle" /\ wstage = "none" /\ wres = "none" /\ cpc = "off" /\ fixing = 0
    /\ ops < MaxOps
    /\ \E stage \in WorkerStages, c \in Clips :
         /\ wstage' = stage
         /\ cur' = c
    /\ wpc' = "entry"
    /\ ops' = ops + 1
    /\ UNCHANGED <<ledger, files, batch, wres, nwrites, nevents, advanced,
                   cpc, max_retries, permanently_failed, attempts, fixing, crashes, ext>>

\* the caller has its result (or the traceback) and ends
DirectDone ==
    /\ opc = "idle" /\ wstage = "none" /\ wres # "none" /\ cpc = "off"
    /\ cur' = 1 /\ wres' = "none" /\ nwrites' = 0 /\ nevents' = 0
    /\ UNCHANGED <<ledger, files, batch, wstage, wpc, advanced, cont, ext>>

\* ------------------------------------------------------- fix_transcript
\* fix_transcript(clip_id, dry_run=False) found clusters to fix:
\* open(large_path, "w") truncates the primary transcript file
FixOpen ==
    /\ opc = "idle" /\ wstage = "none" /\ wres = "none" /\ cpc = "off" /\ fixing = 0
    /\ ops < MaxOps
    /\ \E c \in Clips :
         /\ tfile[c] = "ok"
         /\ tfile' = [tfile EXCEPT ![c] = "corrupt"]
         /\ fixing' = c
    /\ ops' = ops + 1
    /\ UNCHANGED <<ledger, audio, tfile2, dfile, batch, worker,
                   cpc, max_retries, permanently_failed, attempts, crashes, ext>>

\* fix_transcript: json.dump has written the whole document
FixDump ==
    /\ fixing # 0
    /\ tfile' = [tfile EXCEPT ![fixing] = "ok"]
    /\ fixing' = 0
    /\ UNCHANGED <<ledger, audio, tfile2, dfile, batch, worker,
                   cpc, max_retries, permanently_failed, attempts, crashes, ops, ext>>

\* ------------------------------------------------------- run_continuous
\* RetryCount(clip_id, "diarize"): the number of failed diarize events
get_diarization_retry_count(c) ==
    Cardinality({i \in 1..Len(log[c]) : log[c][i] = <<"diarize", "failed">>})

\* get_pending_diarization: analyzed meetings without a diarization file,
\* sorted by clip_id
get_pending_diarization == Ascending({c \in Clips : status[c] = "analyzed" /\ dfile[c] = "none"})

\* the filter run_continuous applies to the pending list
ContPending ==
    SelectSeq(get_pending_diarization,
              LAMBDA c : c \notin permanently_failed
                         /\ get_diarization_retry_count(c) < max_retries)

\* run_continuous(max_retries, retry_delay) is started; with nothing pending
\* its loop only sleeps and polls
ContStart ==
    /\ opc = "idle" /\ wstage = "none" /\ wres = "none" /\ cpc = "off" /\ fixing = 0
    /\ get_pending_diarization # <<>>
    /\ \E mr \in 1..MaxRetriesArg : max_retries' = mr
    /\ cpc' = "loop"
    /\ permanently_failed' = {}
    /\ attempts' = [c \in Clips |-> 0]
    /\ UNCHANGED <<ledger, files, batch, worker, fixing, crashes, ops, ext>>

\* run_continuous: the first pending meeting is handed to diarize_meeting
ContPick ==
    /\ cpc = "loop" /\ wstage = "none"
    /\ ContPending # <<>>
    /\ LET c == Head(ContPending) IN
         /\ attempts[c] < MaxAttempts
         /\ attempts' = [attempts EXCEPT ![c] = @ + 1]
         /\ cur' = c
    /\ wstage' = "diarize"
    /\ wpc' = "entry"
    /\ wres' = "none"
    /\ nwrites' = 0
    /\ nevents' = 0
    /\ cpc' = "run"
    /\ UNCHANGED <<ledger, files, batch, advanced, max_retries, permanently_failed,
                   fixing, crashes, ops, ext>>

\* run_continuous: diarize_meeting returned or raised (except Exception);
\* the result is handled, the pause or the retry delay passes (the delay
\* ends early once the flag is set) and `while not shutdown_requested` is
\* tested: the loop ends, or the next iteration begins
ContAfter ==
    /\ cpc = "run" /\ wstage = "none"
    /\ IF shutdown_requested
       THEN /\ cpc' = "off"
            /\ max_retries' = 1
            /\ permanently_failed' = {}
            /\ attempts' = [c \in Clips |-> 0]
            /\ shutdown_requested' = FALSE
       ELSE /\ cpc' = "loop"
            /\ permanently_failed' =
                 IF wres # "ok" /\ get_diarization_retry_count(cur) >= max_retries - 1
                 THEN permanently_failed \cup {cur}
                 ELSE permanently_failed
            /\ UNCHANGED <<max_retries, attempts, shutdown_requested>>
    /\ cur' = 1 /\ wres' = "none" /\ nwrites' = 0 /\ nevents' = 0
    /\ UNCHANGED <<ledger, files, batch, wstage, wpc, advanced, fixing, crashes, ops,
                   agenda, disc, txn, probes, etext, parked, fx>>

\* run_continuous: SIGINT / SIGTERM, the loop ends after the current meeting
ContShutdown ==
    /\ cpc = "loop"
    /\ cpc' = "off"
    /\ max_retries' = 1
    /\ permanently_failed' = {}
    /\ attempts' = [c \in Clips |-> 0]
    /\ UNCHANGED <<ledger, files, batch, worker, fixing, crashes, ops, ext>>

DirectStep ==
    \/ DirectInvoke \/ DirectDone

\* the batch pipeline and direct worker calls, every call running to its end
NextDirect ==
    \/ Next
    \/ DirectStep

SpecDirect == Init /\ [][NextDirect]_vars

OperatorStep ==
    \/ FixOpen \/ FixDump
    \/ ContStart \/ ContPick \/ ContAfter \/ ContShutdown

\* the batch pipeline, fix_transcript and run_continuous, one process at a
\* time, the process being interrupted at any point
NextOps ==
    \/ NextCrash
    \/ PipelineExcept
    \/ OperatorStep

SpecOps == Init /\ [][NextOps]_vars

\* --------------------------------------- run_continuous and its signals
\* signal_handler: SIGINT or SIGTERM is delivered at any point of the loop,
\* diarize_meeting included; the handler only sets the flag
ContSignal ==
    /\ cpc \in {"loop", "run"}
    /\ ~shutdown_requested
    /\ shutdown_requested' = TRUE
    /\ UNCHANGED <<ledger, files, batch, worker, cont, agenda, disc, txn, probes,
                   etext, parked, fx>>

\* run_continuous: nothing is pending; the idle poll breaks on the flag and
\* the `while` test ends the loop
ContIdle ==
    /\ cpc = "loop" /\ wstage = "none"
    /\ ContPending = <<>>
    /\ shutdown_requested
    /\ cpc' = "off"
    /\ max_retries' = 1
    /\ permanently_failed' = {}
    /\ attempts' = [c \in Clips |-> 0]
    /\ shutdown_requested' = FALSE
    /\ UNCHANGED <<ledger, files, batch, worker, fixing, crashes, ops,
                   agenda, disc, txn, probes, etext, parked, fx>>

\* run_continuous is started on analyzed meetings that have no diarization
\* file and no diarize event yet
InitCont ==
    /\ status = [c \in Clips |-> "analyzed"]
    /\ video_url = [c \in Clips |-> TRUE]
    /\ mdate = [c \in Clips |-> MeetingDate(c)]
    /\ audio \in [Clips -> {"ok", "none"}]
    /\ tfile \in [Clips -> {"ok", "corrupt"}]
    /\ tfile2 = [c \in Clips |-> "ok"]
    /\ dfile = [c \in Clips |-> "none"]
    /\ trec = [c \in Clips |-> TRUE]
    /\ vrec = [c \in Clips |-> TRUE]
    /\ arec = [c \in Clips |-> 1]
    /\ log = [c \in Clips |-> <<>>]
    /\ InitRun

ContStep ==
    \/ ContStart \/ ContSignal \/ ContPick \/ ContAfter \/ ContIdle
    \/ DiarizeEntry \/ DiarizeWork \/ DiarizeLog

\* one run_continuous session, signals arriving at any time
SpecCont == InitCont /\ [][ContStep]_vars

\* ------------------------------------------- two workers at the same time
\* the files and rows a meeting has when it rests in status st
RestingAudio(st) == IF st = "discovered" THEN "none" ELSE "ok"

RestingTranscript(st) == IF st \in {"discovered", "downloaded"} THEN "none" ELSE "ok"

\* a ledger at rest between runs, every meeting somewhere along the stages
InitWorkers ==
    /\ status \in [Clips -> {"discovered", "downloaded", "transcribed", "validated"}]
    /\ video_url = [c \in Clips |-> TRUE]
    /\ mdate = [c \in Clips |-> MeetingDate(c)]
    /\ audio = [c \in Clips |-> RestingAudio(status[c])]
    /\ tfile = [c \in Clips |-> RestingTranscript(status[c])]
    /\ tfile2 = [c \in Clips |-> RestingTranscript(status[c])]
    /\ dfile = [c \in Clips |-> "none"]
    /\ trec = [c \in Clips |-> RestingTranscript(status[c]) = "ok"]
    /\ vrec = [c \in Clips |-> status[c] = "validated"]
    /\ arec = [c \in Clips |-> 0]
    /\ log = [c \in Clips |-> <<>>]
    /\ InitRun

\* two processes call a stage worker each, on two different meetings; every
\* ledger call opens its own connection (get_db) and commits on leaving it
WorkersStart ==
    /\ wstage = "none" /\ wres = "none" /\ parked = NoWorker
    /\ ops < MaxOps
    /\ \E first, second \in WorkerStages :
       \E c1, c2 \in Clips :
          /\ c1 # c2
          /\ wstage' = first /\ cur' = c1
          /\ parked' = [NoWorker EXCEPT !.wstage = second, !.cur = c2, !.wpc = "entry"]
    /\ wpc' = "entry"
    /\ ops' = ops + 1
    /\ UNCHANGED <<ledger, files, batch, wres, nwrites, nevents, advanced,
                   cpc, max_retries, permanently_failed, attempts, fixing, crashes,
                   agenda, disc, txn, probes, etext, shutdown_requested, fx>>

\* the scheduler lets the other process run: its position, result and
\* locals become the ones the worker actions step
WorkersSwitch ==
    /\ parked.wstage # "none"
    /\ wstage' = parked.wstage
    /\ cur' = parked.cur
    /\ wpc' = parked.wpc
    /\ wres' = parked.wres
    /\ nwrites' = parked.nwrites
    /\ nevents' = parked.nevents
    /\ etext' = parked.etext
    /\ parked' = [wstage |-> wstage, cur |-> cur, wpc |-> wpc, wres |-> wres,
                  nwrites |-> nwrites, nevents |-> nevents, etext |-> etext]
    /\ UNCHANGED <<ledger, files, batch, advanced, cont,
                   agenda, disc, txn, probes, shutdown_requested, fx>>

WorkersStep ==
    \/ WorkersStart \/ WorkersSwitch
    \/ WorkerStep

\* two stage workers on two meetings, their steps interleaved in any order
SpecWorkers == InitWorkers /\ [][WorkersStep]_vars

\* ------------------------------------------- diarize_meeting on its own
\* diarize_meeting(clip_id) is about to be called: the meeting may be
\* missing, and so may its audio and its transcript
InitDiarize ==
    /\ status \in [Clips -> {"absent", "transcribed", "analyzed"}]
    /\ video_url = [c \in Clips |-> status[c] # "absent"]
    /\ mdate = [c \in Clips |-> IF status[c] = "absent" THEN 0 ELSE MeetingDate(c)]
    /\ audio \in [Clips -> {"ok", "none"}]
    /\ tfile \in [Clips -> {"ok", "none", "corrupt"}]
    /\ tfile2 = [c \in Clips |-> "none"]
    /\ dfile = [c \in Clips |-> "none"]
    /\ trec = [c \in Clips |-> status[c] # "absent"]
    /\ vrec = [c \in Clips |-> status[c] = "analyzed"]
    /\ arec = [c \in Clips |-> IF status[c] = "analyzed" THEN 1 ELSE 0]
    /\ log = [c \in Clips |-> <<>>]
    /\ InitRun

\* diarize_meeting is called on a clip
DiarizeCall ==
    /\ wstage = "none" /\ wres = "none"
    /\ \E c \in Clips :
          /\ cur' = c
          /\ wstage' = "diarize"
          /\ wpc' = "entry"
    /\ UNCHANGED <<ledger, files, batch, wres, nwrites, nevents, advanced, cont, ext>>

DiarizeStep ==
    \/ DiarizeCall \/ DiarizeEntry \/ DiarizeWork \/ DiarizeLog

\* one diarize_meeting call
SpecDiarize == InitDiarize /\ [][DiarizeStep]_vars

\* ------------------------------------------- runs from the download stage
\* run_full_pipeline turns to stage 2: its discovery stage was skipped
\* (run_incremental) or has returned without a new meeting
StartAtDownload ==
    /\ opc = "idle" /\ wstage = "none" /\ wres = "none" /\ cpc = "off" /\ fixing = 0
    /\ \A c \in Clips : DiarizeRuns(c) < MaxDiarizeRuns
    /\ opc' = "download"
    /\ bphase' = "enter"
    /\ pending' = <<>>
    /\ errors' = FALSE
    /\ wres' = "none"
    /\ UNCHANGED <<ledger, files, bsize, ninv, wstage, cur, wpc, nwrites, nevents, advanced, cont, ext>>

\* transcribed meetings with their files, with or without a diarization file
InitTranscribed ==
    /\ status = [c \in Clips |-> "transcribed"]
    /\ video_url = [c \in Clips |-> TRUE]
    /\ mdate = [c \in Clips |-> MeetingDate(c)]
    /\ audio = [c \in Clips |-> "ok"]
    /\ tfile = [c \in Clips |-> "ok"]
    /\ tfile2 = [c \in Clips |-> "ok"]
    /\ dfile \in [Clips -> {"ok", "none"}]
    /\ trec = [c \in Clips |-> TRUE]
    /\ vrec = [c \in Clips |-> FALSE]
    /\ arec = [c \in Clips |-> 0]
    /\ log = [c \in Clips |-> <<>>]
    /\ InitRun

StagesStep ==
    \/ StartAtDownload \/ BatchSelect \/ BatchInvoke \/ BatchDone \/ Reports
    \/ DiarizeEntry \/ DiarizeWork \/ DiarizeLog
    \/ ValidateEntry \/ ValidateLog \/ ValidateWork \/ ValidateFlip
    \/ AnalyzeEntry \/ AnalyzeLog \/ AnalyzeSegment \/ AnalyzeWork \/ AnalyzeFlip

\* run_full_pipeline on transcribed meetings, every stage being run
SpecStages == InitTranscribed /\ [][StagesStep]_vars

\* a ledger at rest whose meetings are transcribed or validated and
\* diarized; a transcribed meeting's large_v3 file may be gone (removed, or
\* the status was reset by hand after a failed transcription)
InitDrain ==
    /\ status \in [Clips -> {"transcribed", "validated"}]
    /\ video_url = [c \in Clips |-> TRUE]
    /\ mdate = [c \in Clips |-> MeetingDate(c)]
    /\ audio = [c \in Clips |-> "ok"]
    /\ tfile \in [Clips -> {"ok", "none"}]
    /\ \A c \in Clips : status[c] = "validated" => tfile[c] = "ok"
    /\ tfile2 = [c \in Clips |-> "none"]
    /\ dfile = [c \in Clips |-> "ok"]
    /\ trec = [c \in Clips |-> TRUE]
    /\ vrec = [c \in Clips |-> status[c] = "validated"]
    /\ arec = [c \in Clips |-> 0]
    /\ log = [c \in Clips |-> <<>>]
    /\ InitRun

DrainStep ==
    \/ StartAtDownload \/ BatchSelect \/ BatchInvoke \/ BatchDone \/ Reports
    \/ ValidateEntry \/ ValidateLog \/ ValidateWork \/ ValidateFlip
    \/ AnalyzeEntry \/ AnalyzeLog \/ AnalyzeSegment \/ AnalyzeWork \/ AnalyzeFlip

\* run_incremental again and again, no run interrupted: a run that can
\* take a step takes it, and a new run starts after each one
SpecDrain == InitDrain /\ [][DrainStep]_vars /\ WF_vars(DrainStep)

\* ------------------------------------------------- validator: word error rate
\* A str is modelled by its words and by whether it has leading or trailing
\* whitespace: "" is no words and no padding, " " is no words with padding.
\* "A" is the upper-case form of "a".
Vocabulary == {"a", "A", "b"}

\* the sequences over S of length at most n
SeqUpTo(S, n) == UNION {[1..k -> S] : k \in 0..n}

Texts == [pad : BOOLEAN, words : SeqUpTo(Vocabulary, MaxWords)]

\* bool(text): only "" is falsy
Truthy(t) == t # EmptyText

\* str.lower of one word
LowerWord(w) == IF w = "A" THEN "a" ELSE w

\* text.lower().strip()
LowerStrip(t) == [pad |-> FALSE, words |-> [i \in 1..Len(t.words) |-> LowerWord(t.words[i])]]

\* a + " " + b
ConcatSpace(a, b) == [pad |-> TRUE, words |-> a.words \o b.words]

\* text.strip()
Strip(t) == [pad |-> FALSE, words |-> t.words]

RatEq(x, y) == x[1] * y[2] = y[1] * x[2]

RatLeq(x, y) == x[1] * y[2] <= y[1] * x[2]

RatLess(x, y) == x[1] * y[2] < y[1] * x[2]

Min2(x, y) == IF x <= y THEN x ELSE y

\* the least number of word substitutions, deletions and insertions that
\* turn r into h
RECURSIVE EditDistance(_, _)
EditDistance(r, h) ==
    IF r = <<>> THEN Len(h)
    ELSE IF h = <<>> THEN Len(r)
    ELSE Min2(EditDistance(Tail(r), Tail(h)) + (IF Head(r) = Head(h) THEN 0 ELSE 1),
              Min2(EditDistance(Tail(r), h) + 1, EditDistance(r, Tail(h)) + 1))

\* jiwer.wer(reference, hypothesis) raises on a reference without words
werRaises(reference, hypothesis) == reference.words = <<>>

\* jiwer.wer(reference, hypothesis): (S + D + I) / (number of reference words)
wer(reference, hypothesis) ==
    <<EditDistance(reference.words, hypothesis.words), Len(reference.words)>>

\* calculate_segment_wer: the float it returns
calculate_segment_wer(text1, text2) ==
    IF ~Truthy(text1) \/ ~Truthy(text2) THEN One
    ELSE IF LowerStrip(text1) = LowerStrip(text2) THEN Zero
    ELSE IF werRaises(LowerStrip(text1), LowerStrip(text2)) THEN One
    ELSE wer(LowerStrip(text1), LowerStrip(text2))

\* config.VALIDATION_WER_THRESHOLD = 0.15
VALIDATION_WER_THRESHOLD == <<15, 100>>

\* the texts of the segments of a transcript file
SegTexts == {t \in Texts : ~t.pad /\ Len(t.words) <= 1 /\ \A i \in 1..Len(t.words) : t.words[i] # "A"}

Times == 0..MaxTime

Segments == {g \in [text : SegTexts, start : Times, end : Times] : g.start <= g.end}

\* the "text" of a transcript: the texts of its segments one after the other
RECURSIVE FullText(_)
FullText(segs) ==
    IF segs = <<>> THEN EmptyText
    ELSE Strip(ConcatSpace(Head(segs).text, FullText(Tail(segs))))

\* a transcript file as mlx_whisper produces it
Transcript(segs) == [text |-> FullText(segs), segments |-> segs]

Transcripts == {Transcript(segs) : segs \in SeqUpTo(Segments, MaxSegs)}

\* compare_transcripts: s_text of primary segment p_seg, the texts of the
\* overlapping secondary segments joined, in order
RECURSIVE OverlapText(_, _)
OverlapText(p_seg, secondary_segments) ==
    IF secondary_segments = <<>> THEN EmptyText
    ELSE LET s_seg == Head(secondary_segments)
             rest == OverlapText(p_seg, Tail(secondary_segments))
         IN IF s_seg.start <= p_seg.end /\ s_seg.end >= p_seg.start
            THEN [pad |-> TRUE, words |-> s_seg.text.words \o rest.words]
            ELSE rest

\* compare_transcripts: the descriptor of primary segment i (0-based index
\* i - 1) when it is divergent
Descriptor(large, medium, i) ==
    LET p_seg == large.segments[i]
        s_text == Strip(OverlapText(p_seg, medium.segments))
    IN [segment_index |-> i - 1,
        wer |-> calculate_segment_wer(p_seg.text, s_text),
        large_text |-> p_seg.text,
        medium_text |-> s_text]

\* the subsequence of the descriptors of segments i.. that are divergent
RECURSIVE Divergent(_, _, _)
Divergent(large, medium, i) ==
    IF i > Len(large.segments) THEN <<>>
    ELSE LET d == Descriptor(large, medium, i)
         IN (IF RatLess(VALIDATION_WER_THRESHOLD, d.wer) THEN <<d>> ELSE <<>>)
            \o Divergent(large, medium, i + 1)

compare_transcripts(large, medium) ==
    <<calculate_segment_wer(large.text, medium.text), Divergent(large, medium, 1)>>

\* calculate_segment_wer is called on two texts
WerCall ==
    /\ fcall = NoCall
    /\ \E text1 \in Texts, text2 \in Texts :
          fcall' = [name |-> "calculate_segment_wer", args |-> <<text1, text2>>,
                    ret |-> calculate_segment_wer(text1, text2)]
    /\ UNCHANGED <<ledger, files, batch, worker, cont, agenda, disc, txn, probes, conc, etext, val, an>>

\* compare_transcripts is called on two transcripts
CompareCall ==
    /\ fcall = NoCall
    /\ \E large \in Transcripts, medium \in Transcripts :
          fcall' = [name |-> "compare_transcripts", args |-> <<large, medium>>,
                    ret |-> compare_transcripts(large, medium)]
    /\ UNCHANGED <<ledger, files, batch, worker, cont, agenda, disc, txn, probes, conc, etext, val, an>>

WerStep == WerCall \/ CompareCall

SpecWer == Init /\ [][WerStep]_vars

\* ------------------------------------------------ validator: the two tiers
VALIDATION_COHERENCE_THRESHOLD == 80

\* segment i of a loaded transcript lies in its own time slot
SlotSegments(texts) ==
    [i \in 1..Len(texts) |-> [text |-> texts[i], start |-> 2 * (i - 1), end |-> 2 * (i - 1) + 1]]

\* a loaded transcript file with the given segment texts
Loaded(texts) ==
    [present |-> TRUE, text |-> FullText(SlotSegments(texts)), segments |-> SlotSegments(texts)]

WordA == [pad |-> FALSE, words |-> <<"a">>]

WordB == [pad |-> FALSE, words |-> <<"b">>]

\* the large_v3 files validate_meeting may find
PrimaryFiles == {Loaded(texts) : texts \in SeqUpTo({WordA}, MaxPrimarySegs)}

\* the medium files validate_meeting may find
SecondaryFiles == {Loaded(texts) : texts \in SeqUpTo({WordA, WordB}, MaxPrimarySegs)}

\* the secondary file of clip c: transcribed with dual_model only for odd c
SecondaryOf(c) == IF tfile2[c] = "none" THEN {None} ELSE SecondaryFiles

\* what the fast model answers: no JSON, or JSON with a score (0 stands for
\* a missing or zero score, "str" for one that is not a number) and a flag
Tier1Responses ==
    {[parsed |-> FALSE, score |-> 0, score_type |-> "int", needs_deep_review |-> FALSE]}
    \cup [parsed : {TRUE}, score : {0, 90}, score_type : {"int"}, needs_deep_review : BOOLEAN]
    \cup {[parsed |-> TRUE, score |-> 0, score_type |-> "str", needs_deep_review |-> FALSE]}

\* tier1_validate_segment on the response of call_ollama
tier1_validate_segment(response) ==
    IF response.parsed
    THEN [score |-> IF response.score_type = "int" /\ response.score = 0 THEN 50 ELSE response.score,
          score_type |-> response.score_type,
          needs_deep_review |-> response.needs_deep_review]
    ELSE [score |-> 50, score_type |-> "int", needs_deep_review |-> TRUE]

\* validate_meeting: the test that puts a tier-1 result on the deep list
NeedsDeep(result) ==
    result.score < VALIDATION_COHERENCE_THRESHOLD \/ result.needs_deep_review

\* what the deep model answers: no JSON, or JSON with a flag
Tier2Responses ==
    {[parsed |-> FALSE, needs_human_review |-> FALSE]}
    \cup [parsed : {TRUE}, needs_human_review : BOOLEAN]

\* tier2_validate_segment reports human review on parsed responses only
tier2_validate_segmentParsed(response) ==
    [needs_human_review |-> response.parsed /\ response.needs_human_review]

\* tier2_validate_segment on the response of call_ollama
tier2_validate_segment(response) ==
    IF response.parsed
    THEN [needs_human_review |-> response.needs_human_review]
    ELSE [needs_human_review |-> TRUE]

\* validate_meeting's merge appends every divergent segment
NotListedAlways(index, list) == TRUE

\* validate_meeting: div_seg["segment_index"] not in [s["index"] for s in list]
NotListed(index, list) == \A k \in 1..Len(list) : list[k] # index

\* validate_meeting: the deep list after the divergent segments from
\* position k on are added
RECURSIVE AddDivergent(_, _, _)
AddDivergent(list, divergent, k) ==
    IF k > Len(divergent) THEN list
    ELSE AddDivergent(IF NotListed(divergent[k].segment_index, list)
                      THEN Append(list, divergent[k].segment_index)
                      ELSE list,
                      divergent, k + 1)

\* the tier-2 calls made so far
Tier2Calls == {k \in 1..Len(called) : called[k].tier = 2}

\* validate_meeting: the transcripts loaded at entry are compared
ValidateCompare ==
    /\ wstage = "validate" /\ wpc = "va_work"
    /\ \E p \in PrimaryFiles, s \in SecondaryOf(cur) :
          /\ primary' = p
          /\ secondary' = s
          /\ IF s.present
             THEN /\ overall_wer' = compare_transcripts(p, s)[1]
                  /\ divergent_segments' = compare_transcripts(p, s)[2]
             ELSE /\ overall_wer' = Zero
                  /\ divergent_segments' = <<>>
    /\ Goto("va_tier1")
    /\ UNCHANGED <<ledger, files, batch, cur, nwrites, nevents, advanced, cont,
                   agenda, disc, txn, probes, conc, etext, fcall, an,
                   tier1_scores, segments_needing_deep, tier2_scores, called, vrow>>

\* validate_meeting: one round of the tier-1 loop, or its end and the merge
\* of the divergent segments into the deep list
ValidateTier1 ==
    /\ wstage = "validate" /\ wpc = "va_tier1"
    /\ LET i == Len(tier1_scores)
       IN IF i < Len(primary.segments) /\ i < Tier1Limit
          THEN \E response \in Tier1Responses :
                  LET result == tier1_validate_segment(response)
                  IN /\ called' = Append(called, [tier |-> 1, index |-> i, response |-> response])
                     /\ tier1_scores' = Append(tier1_scores, result)
                     /\ IF result.score_type = "str"
                        THEN Goto("va_exc") /\ UNCHANGED segments_needing_deep
                        ELSE /\ Goto("va_tier1")
                             /\ segments_needing_deep' =
                                   IF NeedsDeep(result)
                                   THEN Append(segments_needing_deep, i)
                                   ELSE segments_needing_deep
          ELSE /\ segments_needing_deep' =
                     AddDivergent(segments_needing_deep, divergent_segments, 1)
               /\ Goto("va_tier2")
               /\ UNCHANGED <<tier1_scores, called>>
    /\ UNCHANGED <<ledger, files, batch, cur, nwrites, nevents, advanced, cont,
                   agenda, disc, txn, probes, conc, etext, fcall, an,
                   primary, secondary, overall_wer, divergent_segments, tier2_scores, vrow>>

\* validate_meeting: one round of the tier-2 loop, or its end
ValidateTier2 ==
    /\ wstage = "validate" /\ wpc = "va_tier2"
    /\ LET k == Cardinality(Tier2Calls)
       IN IF k < Len(segments_needing_deep) /\ k < Tier2Limit
          THEN \E response \in Tier2Responses :
                  LET idx == segments_needing_deep[k + 1]
                  IN /\ called' = Append(called, [tier |-> 2, index |-> idx, response |-> response])
                     /\ tier2_scores' =
                           [j \in DOMAIN tier2_scores \cup {idx} |->
                               IF j = idx THEN tier2_validate_segment(response)
                               ELSE tier2_scores[j]]
                     /\ Goto("va_tier2")
          ELSE /\ Goto("va_store")
               /\ UNCHANGED <<tier2_scores, called>>
    /\ UNCHANGED <<ledger, files, batch, cur, nwrites, nevents, advanced, cont,
                   agenda, disc, txn, probes, conc, etext, fcall, an,
                   primary, secondary, overall_wer, divergent_segments, tier1_scores,
                   segments_needing_deep, vrow>>

\* validate_meeting: human_review_needed over tier2_scores
HumanReviewNeeded == \E j \in DOMAIN tier2_scores : tier2_scores[j].needs_human_review

\* validate_meeting: insert_validation
ValidateStore ==
    /\ wstage = "validate" /\ wpc = "va_store"
    /\ vrow' = [present |-> TRUE, wer_score |-> overall_wer,
                human_review_needed |-> HumanReviewNeeded]
    /\ vrec' = [vrec EXCEPT ![cur] = TRUE]
    /\ Goto("va_flip")
    /\ UNCHANGED <<status, video_url, mdate, trec, arec, log, files, batch, cur, nwrites,
                   nevents, advanced, cont, agenda, disc, txn, probes, conc, etext, fcall, an,
                   primary, secondary, overall_wer, divergent_segments, tier1_scores,
                   segments_needing_deep, tier2_scores, called>>

\* validate_meeting(cur) has just been called on a transcribed meeting whose
\* large_v3 file exists; odd clips were transcribed with both models
InitValidate ==
    /\ status = [c \in Clips |-> "transcribed"]
    /\ video_url = [c \in Clips |-> TRUE]
    /\ mdate = [c \in Clips |-> MeetingDate(c)]
    /\ audio = [c \in Clips |-> "ok"]
    /\ tfile = [c \in Clips |-> "ok"]
    /\ tfile2 = [c \in Clips |-> IF c % 2 = 1 THEN "ok" ELSE "none"]
    /\ dfile = [c \in Clips |-> "none"]
    /\ trec = [c \in Clips |-> TRUE]
    /\ vrec = [c \in Clips |-> FALSE]
    /\ arec = [c \in Clips |-> 0]
    /\ log = [c \in Clips |-> <<>>]
    /\ InitRun

\* validate_meeting is called on a clip
ValidateCall ==
    /\ wstage = "none" /\ wres = "none"
    /\ \E c \in Clips :
          /\ cur' = c
          /\ wstage' = "validate"
          /\ wpc' = "entry"
    /\ UNCHANGED <<ledger, files, batch, wres, nwrites, nevents, advanced, cont, ext>>

ValidateStep ==
    \/ ValidateCall
    \/ ValidateEntry
    \/ ValidateLog
    \/ ValidateCompare
    \/ ValidateTier1
    \/ ValidateTier2
    \/ ValidateStore
    \/ ValidateFlip

SpecValidate == InitValidate /\ [][ValidateStep]_vars

\* ---------------------------------------------------- analyzer: the loops
\* analyze_meeting: the default analysis_types
DefaultTypes == <<"summary", "advocacy_intel", "vote_record", "priority_alerts">>

analysis_types == SubSeq(DefaultTypes, 1, NumTypes)

\* what ollama.generate gives: it raises, or the response text holds a JSON
\* object that parses ("object", "{}" for the empty one), is no JSON at all
\* ("text"), or is JSON that is not an object: truthy ("array": a non-empty
\* list, a number, a string) or falsy ("null": null, [], 0, false)
AnalysisResponses == {"raise", "object", "{}", "text", "array", "null"}

\* the response text holds no JSON object that parses
NoJsonObject(response) == response \in {"text", "array", "null"}

\* call_ollama_analysis: what it returns for the response
call_ollama_analysis(response) ==
    CASE response = "raise" -> "None"
      [] response = "object" -> "dict"
      [] response = "{}" -> "empty dict"
      [] response = "text" -> "raw_response"
      [] response = "array" -> "value"
      [] response = "null" -> "falsy value"

\* analyze_meeting: if result
ResultTruthy(result) == result \in {"dict", "raw_response", "value"}

\* the segments analyze_meeting works on: those of segment_meeting or the
\* full transcript, each with at least 50 characters ("long") or fewer
AnalysisSegments == UNION {[1..n -> {"long", "short"}] : n \in 1..MaxAnalysisSegs}

\* analyze_meeting: segment_meeting has returned
AnalyzeBegin ==
    /\ wstage = "analyze" /\ wpc = "an_work" /\ an_segments = <<>>
    /\ an_segments' \in AnalysisSegments
    /\ an_i' = <<1, 1>>
    /\ UNCHANGED <<ledger, files, batch, worker, cont, agenda, disc, txn, probes, conc, etext,
                   fcall, val, an_calls, an_rows>>

\* analyze_meeting: one round of the loops over segments and types: a short
\* segment is skipped, otherwise analyze_segment is called and a truthy
\* result is stored by insert_analysis
AnalyzePair ==
    /\ wstage = "analyze" /\ wpc = "an_work" /\ an_segments # <<>>
    /\ an_i[1] <= Len(an_segments)
    /\ IF an_segments[an_i[1]] = "short"
       THEN /\ an_i' = <<an_i[1] + 1, 1>>
            /\ UNCHANGED <<arec, an_calls, an_rows>>
       ELSE \E response \in AnalysisResponses :
               LET result == call_ollama_analysis(response)
                   pair == <<an_i[1], analysis_types[an_i[2]]>>
               IN /\ an_calls' = Append(an_calls, [pair |-> pair, response |-> response])
                  /\ IF ResultTruthy(result)
                     THEN /\ an_rows' = Append(an_rows, [pair |-> pair, result |-> result])
                          /\ arec' = insert_analysis(cur)
                     ELSE UNCHANGED <<arec, an_rows>>
                  /\ an_i' = IF an_i[2] < Len(analysis_types)
                             THEN <<an_i[1], an_i[2] + 1>>
                             ELSE <<an_i[1] + 1, 1>>
    /\ UNCHANGED <<status, video_url, mdate, trec, vrec, log, files, batch, worker, cont,
                   agenda, disc, txn, probes, conc, etext, fcall, val, an_segments>>

\* analyze_meeting: the meeting-level summary after the loops; on a long
\* full text, "summary" in result raises for a result that is a number
AnalyzeSummary ==
    /\ wstage = "analyze" /\ wpc = "an_work" /\ an_segments # <<>>
    /\ an_i[1] > Len(an_segments)
    /\ \E response \in AnalysisResponses :
          /\ an_calls' = Append(an_calls, [pair |-> <<0, "summary">>, response |-> response])
          /\ \/ Goto("an_flip")
             \/ call_ollama_analysis(response) = "value" /\ Goto("an_exc")
    /\ UNCHANGED <<ledger, files, batch, cur, nwrites, nevents, advanced, cont,
                   agenda, disc, txn, probes, conc, etext, fcall, val, an_segments, an_i, an_rows>>

\* analyze_meeting(cur) is about to be called on a validated meeting
InitAnalyze ==
    /\ status = [c \in Clips |-> "validated"]
    /\ video_url = [c \in Clips |-> TRUE]
    /\ mdate = [c \in Clips |-> MeetingDate(c)]
    /\ audio = [c \in Clips |-> "ok"]
    /\ tfile = [c \in Clips |-> "ok"]
    /\ tfile2 = [c \in Clips |-> "ok"]
    /\ dfile = [c \in Clips |-> "none"]
    /\ trec = [c \in Clips |-> TRUE]
    /\ vrec = [c \in Clips |-> TRUE]
    /\ arec = [c \in Clips |-> 0]
    /\ log = [c \in Clips |-> <<>>]
    /\ InitRun

\* analyze_meeting is called on a clip
AnalyzeCall ==
    /\ wstage = "none" /\ wres = "none"
    /\ \E c \in Clips :
          /\ cur' = c
          /\ wstage' = "analyze"
          /\ wpc' = "entry"
    /\ UNCHANGED <<ledger, files, batch, wres, nwrites, nevents, advanced, cont, ext>>

AnalyzeStep ==
    \/ AnalyzeCall
    \/ AnalyzeEntry
    \/ AnalyzeLog
    \/ AnalyzeSegment
    \/ AnalyzeBegin
    \/ AnalyzePair
    \/ AnalyzeSummary
    \/ AnalyzeFlip

SpecAnalyze == InitAnalyze /\ [][AnalyzeStep]_vars

\* ------------------------------------------- merge_speaker_identifications
\* speaker names; "" stands for None and for the empty string
Names == {"A", "B"}

\* pyannote's opaque speaker IDs, and f"UNKNOWN_{i}"
SpeakerId(k) == [kind |-> "SPEAKER", n |-> k]

UnknownId(i) == [kind |-> "UNKNOWN", n |-> i]

\* pyannote_map.get(i) is None
NoId == [kind |-> "None", n |-> 0]

\* transcript segment with 0-based index i - 1 spans [i - 1, i]
TranscriptSegments == [i \in 1..NumTranscriptSegs |-> [start |-> i - 1, end |-> i]]

\* one pyannote turn: (start, end, speaker_id)
Turns ==
    {t \in [start : 0..NumTranscriptSegs, end : 0..NumTranscriptSegs,
            speaker_id : {SpeakerId(0), SpeakerId(1)}] : t.start < t.end}

\* run_pyannote_diarization: the turns, the first one of speaker 0
PyannoteLists ==
    {py \in SeqUpTo(Turns, MaxTurns) : py # <<>> => py[1].speaker_id = SpeakerId(0)}

\* identify_speakers_from_patterns: per segment the matched members, here at
\* most one ("seg_i" is missing when the list is empty)
PatternIds == [1..NumTranscriptSegs -> {<<>>} \cup {<<n>> : n \in Names}]

\* identify_speakers_from_agenda: per segment the presenter, "" when missing
AgendaIds == [1..NumTranscriptSegs -> {"", "A"}]

\* identify_speakers_with_llm: one object of the model's JSON array;
\* confidence is in hundredths, 0 when the key is missing
LlmEntries ==
    [segment_index : 0..(NumTranscriptSegs - 1), speaker : {"", "B"}, confidence : {0, 80}]

LlmLists == SeqUpTo(LlmEntries, MaxLlm)

\* merge_speaker_identifications: pyannote_map.get(i), the last turn that
\* contains segment i
PyannoteMap(pyannote_segments, i) ==
    LET seg == TranscriptSegments[i]
        ks == {k \in 1..Len(pyannote_segments) :
                  seg.start >= pyannote_segments[k].start /\ seg.end <= pyannote_segments[k].end}
    IN IF ks = {} THEN NoId
       ELSE pyannote_segments[CHOOSE k \in ks : \A j \in ks : j <= k].speaker_id

\* the first entry of llm_ids for 0-based index i - 1, as a sequence of
\* at most one entry
RECURSIVE FirstLlm(_, _)
FirstLlm(llm_ids, i) ==
    IF llm_ids = <<>> THEN <<>>
    ELSE IF Head(llm_ids).segment_index = i - 1 THEN <<Head(llm_ids)>>
    ELSE FirstLlm(Tail(llm_ids), i)

\* the agenda presenter is looked at before the pattern matches
DirectAgendaFirst(pattern_ids, agenda_ids, llm_ids, i) ==
    IF agenda_ids[i] # ""
    THEN [speaker_name |-> agenda_ids[i], confidence |-> 70, identification_method |-> "agenda"]
    ELSE IF pattern_ids[i] # <<>>
    THEN [speaker_name |-> pattern_ids[i][1], confidence |-> 90, identification_method |-> "pattern"]
    ELSE [speaker_name |-> "", confidence |-> 0, identification_method |-> ""]

\* merge_speaker_identifications: name, confidence and method of segment i
\* after the if / elif / else over pattern, agenda and LLM evidence
Direct(pattern_ids, agenda_ids, llm_ids, i) ==
    IF pattern_ids[i] # <<>>
    THEN [speaker_name |-> pattern_ids[i][1], confidence |-> 90, identification_method |-> "pattern"]
    ELSE IF agenda_ids[i] # ""
    THEN [speaker_name |-> agenda_ids[i], confidence |-> 70, identification_method |-> "agenda"]
    ELSE IF FirstLlm(llm_ids, i) # <<>>
    THEN [speaker_name |-> FirstLlm(llm_ids, i)[1].speaker,
          confidence |-> IF FirstLlm(llm_ids, i)[1].confidence = 0 THEN 50
                         ELSE FirstLlm(llm_ids, i)[1].confidence,
          identification_method |-> "llm"]
    ELSE [speaker_name |-> "", confidence |-> 0, identification_method |-> ""]

\* the vote weights 2, 1.5 and 1, doubled
VoteWeight(method) ==
    CASE method = "pattern" -> 4
      [] method = "agenda" -> 3
      [] method = "llm" -> 2
      [] OTHER -> 0

\* votes[name] = votes.get(name, 0) + w on a dict kept as the sequence of
\* its items in insertion order
AddVote(votes, name, w) ==
    IF \E k \in 1..Len(votes) : votes[k].name = name
    THEN [k \in 1..Len(votes) |->
             IF votes[k].name = name THEN [name |-> name, weight |-> votes[k].weight + w]
             ELSE votes[k]]
    ELSE Append(votes, [name |-> name, weight |-> w])

\* speaker_votes[speaker_id] after the segments up to i have been processed
RECURSIVE SpeakerVotes(_, _, _, _, _, _)
SpeakerVotes(pyannote_segments, pattern_ids, agenda_ids, llm_ids, speaker_id, i) ==
    IF i = 0 THEN <<>>
    ELSE LET before == SpeakerVotes(pyannote_segments, pattern_ids, agenda_ids, llm_ids, speaker_id, i - 1)
             d == Direct(pattern_ids, agenda_ids, llm_ids, i)
         IN IF PyannoteMap(pyannote_segments, i) = speaker_id /\ d.speaker_name # ""
            THEN AddVote(before, d.speaker_name, VoteWeight(d.identification_method))
            ELSE before

\* max picks the last of the names with the largest weight
BestNameLast(votes) ==
    votes[CHOOSE k \in 1..Len(votes) :
             /\ \A j \in 1..Len(votes) : votes[j].weight <= votes[k].weight
             /\ \A j \in (k + 1)..Len(votes) : votes[j].weight < votes[k].weight].name

\* max(votes, key=votes.get): the first name with the largest weight
BestName(votes) ==
    votes[CHOOSE k \in 1..Len(votes) :
             /\ \A j \in 1..Len(votes) : votes[j].weight <= votes[k].weight
             /\ \A j \in 1..(k - 1) : votes[j].weight < votes[k].weight].name

\* the keys of speaker_votes that have votes
VotedIds(pyannote_segments, pattern_ids, agenda_ids, llm_ids) ==
    {id \in {SpeakerId(0), SpeakerId(1)} :
        SpeakerVotes(pyannote_segments, pattern_ids, agenda_ids, llm_ids, id, NumTranscriptSegs) # <<>>}

\* result.speaker_mapping
SpeakerMapping(pyannote_segments, pattern_ids, agenda_ids, llm_ids) ==
    [id \in VotedIds(pyannote_segments, pattern_ids, agenda_ids, llm_ids) |->
        BestName(SpeakerVotes(pyannote_segments, pattern_ids, agenda_ids, llm_ids, id, NumTranscriptSegs))]

\* merge_speaker_identifications: result.segments and result.speaker_mapping
merge_speaker_identifications(pyannote_segments, pattern_ids, agenda_ids, llm_ids) ==
    LET mapping == SpeakerMapping(pyannote_segments, pattern_ids, agenda_ids, llm_ids)
        segment(i) ==
            LET pid == PyannoteMap(pyannote_segments, i)
                speaker_id == IF pid = NoId THEN UnknownId(i - 1) ELSE pid
                d == Direct(pattern_ids, agenda_ids, llm_ids, i)
            IN IF d.speaker_name = "" /\ speaker_id \in DOMAIN mapping
               THEN [speaker_id |-> speaker_id, speaker_name |-> mapping[speaker_id],
                     confidence |-> 60, identification_method |-> "pyannote_mapped"]
               ELSE [speaker_id |-> speaker_id, speaker_name |-> d.speaker_name,
                     confidence |-> d.confidence, identification_method |-> d.identification_method]
    IN [segments |-> [i \in 1..NumTranscriptSegs |-> segment(i)], speaker_mapping |-> mapping]

\* merge_speaker_identifications is called by diarize_meeting
MergeCall ==
    /\ fcall = NoCall
    /\ \E py \in PyannoteLists, pattern_ids \in PatternIds, agenda_ids \in AgendaIds,
          llm_ids \in LlmLists :
          fcall' = [name |-> "merge_speaker_identifications",
                    args |-> [pyannote_segments |-> py, pattern_ids |-> pattern_ids,
                              agenda_ids |-> agenda_ids, llm_ids |-> llm_ids],
                    ret |-> merge_speaker_identifications(py, pattern_ids, agenda_ids, llm_ids)]
    /\ UNCHANGED <<ledger, files, batch, worker, cont, agenda, disc, txn, probes, conc, etext, val, an>>

SpecMerge == Init /\ [][MergeCall]_vars

\* ---------------------------------------------- agenda items of a clip page
\* the time attribute of an .index-point div; NoTime when it has none
NoTime == -1

\* the index points of a page, in document order
AnchorLists == SeqUpTo({NoTime} \cup 0..MaxAnchorTime, MaxAnchors)

\* parse_clip_page: the agenda item of index point i, whose end is the time
\* of the next index point of the page
AnchorItem(index_points, i) ==
    [start_seconds |-> index_points[i],
     end_seconds |-> IF i + 1 <= Len(index_points) THEN index_points[i + 1] ELSE NoTime]

\* parse_clip_page: agenda_items, the items of the index points from i on
\* that have a time
RECURSIVE ParseAgenda(_, _)
ParseAgenda(index_points, i) ==
    IF i > Len(index_points) THEN <<>>
    ELSE (IF index_points[i] # NoTime THEN <<AnchorItem(index_points, i)>> ELSE <<>>)
         \o ParseAgenda(index_points, i + 1)

\* ORDER BY start_seconds: row put into the sorted rows, after equal starts
RECURSIVE InsertByStart(_, _)
InsertByStart(rows, row) ==
    IF rows = <<>> THEN <<row>>
    ELSE IF row.start_seconds < Head(rows).start_seconds THEN <<row>> \o rows
    ELSE <<Head(rows)>> \o InsertByStart(Tail(rows), row)

RECURSIVE OrderByStart(_)
OrderByStart(rows) ==
    IF rows = <<>> THEN <<>>
    ELSE InsertByStart(OrderByStart(SubSeq(rows, 1, Len(rows) - 1)), rows[Len(rows)])

\* get_agenda_items after insert_agenda_items(clip_id, items)
get_agenda_items(items) == OrderByStart(items)

\* a clip page is parsed, its agenda items are stored and read back
ParsePageCall ==
    /\ fcall = NoCall
    /\ \E index_points \in AnchorLists :
          fcall' = [name |-> "get_agenda_items", args |-> index_points,
                    ret |-> get_agenda_items(ParseAgenda(index_points, 1))]
    /\ UNCHANGED <<ledger, files, batch, worker, cont, agenda, disc, txn, probes, conc, etext, val, an>>

SpecPage == Init /\ [][ParsePageCall]_vars

\* ------------------------------------------------------------ segmenter
\* segment_by_word_count: the duration assumed after the last item's start
LAST_ITEM_SECONDS == 600

SegmentTimes == {k * TimeUnit : k \in 0..MaxSlot}

\* rows of get_agenda_items: ordered by start_seconds, end_seconds may be
\* NULL (NoTime) and is whatever the clip page gave
AgendaRows ==
    {items \in SeqUpTo([start_seconds : SegmentTimes, end_seconds : SegmentTimes \cup {NoTime}],
                       MaxItems) :
        \A i \in 1..(Len(items) - 1) : items[i].start_seconds <= items[i + 1].start_seconds}

\* full_text of a transcript: words and outer whitespace
FullTexts == [pad : BOOLEAN, words : SeqUpTo({"a", "b"}, MaxTextWords)]

\* word_timestamps of a transcript, in time order; the word is named by its
\* position
WordTimestamps ==
    {w \in SeqUpTo({t \in [start : SegmentTimes, end : SegmentTimes] : t.start <= t.end},
                   MaxTextWords) :
        \A i \in 1..(Len(w) - 1) : w[i].start <= w[i + 1].start}

\* end_sec of item i: its end_seconds, else the next item's start, else
\* `last` (the caller's value for the last item)
EndSec(agenda_items, i, last) ==
    IF agenda_items[i].end_seconds # NoTime THEN agenda_items[i].end_seconds
    ELSE IF i + 1 <= Len(agenda_items) THEN agenda_items[i + 1].start_seconds
    ELSE last

\* int(x) of the float num / den, den > 0: truncation toward zero
IntOfRatio(num, den) == IF num >= 0 THEN num \div den ELSE -((-num) \div den)

\* a slice bound as Python normalises it for a list of n elements
SliceBound(i, n) ==
    IF i < 0 THEN (IF i + n < 0 THEN 0 ELSE i + n)
    ELSE IF i > n THEN n ELSE i

\* words[lo:hi]
Slice(words, lo, hi) ==
    LET a == SliceBound(lo, Len(words))
        b == SliceBound(hi, Len(words))
    IN IF a < b THEN SubSeq(words, a + 1, b) ELSE <<>>

\* a + " " + b
JoinSpace(a, b) ==
    [pad |-> a.pad \/ b.pad \/ a.words = <<>> \/ b.words = <<>>, words |-> a.words \o b.words]

\* total_duration = last_item.get("end_seconds") or start_seconds + 600
TotalDuration(agenda_items) ==
    LET last_item == agenda_items[Len(agenda_items)]
    IN IF last_item.end_seconds # NoTime /\ last_item.end_seconds # 0
       THEN last_item.end_seconds
       ELSE last_item.start_seconds + LAST_ITEM_SECONDS

\* word_count of item i: int(total_words * proportion)
Allotment(total_words, agenda_items, i) ==
    LET total_duration == TotalDuration(agenda_items)
        duration == EndSec(agenda_items, i, total_duration) - agenda_items[i].start_seconds
    IN IF total_duration > 0 THEN IntOfRatio(total_words * duration, total_duration)
       ELSE total_words \div Len(agenda_items)

\* variant: word_index is not advanced
WordIndexZero(total_words, agenda_items, i) == 0

\* word_index before item i
RECURSIVE WordIndex(_, _, _)
WordIndex(total_words, agenda_items, i) ==
    IF i = 1 THEN 0
    ELSE WordIndex(total_words, agenda_items, i - 1) + Allotment(total_words, agenda_items, i - 1)

\* segment_by_word_count(full_text, agenda_items), agenda_items not empty
segment_by_word_count(full_text, agenda_items) ==
    LET words == full_text.words
        total_words == Len(words)
        n == Len(agenda_items)
        total_duration == TotalDuration(agenda_items)
        segment_words(i) ==
            LET word_index == WordIndex(total_words, agenda_items, i)
            IN Slice(words, word_index, word_index + Allotment(total_words, agenda_items, i))
        segment(i) ==
            [agenda_item_id |-> i,
             text |-> [pad |-> FALSE, words |-> segment_words(i)],
             start_seconds |-> agenda_items[i].start_seconds,
             end_seconds |-> EndSec(agenda_items, i, total_duration),
             word_count |-> Len(segment_words(i))]
        word_index == WordIndex(total_words, agenda_items, n + 1)
    IN IF total_words = 0 THEN <<>>
       ELSE [i \in 1..n |->
               IF i = n /\ word_index < total_words
               THEN [segment(i) EXCEPT
                       !.text = JoinSpace(@, [pad |-> FALSE,
                                              words |-> Slice(words, word_index, total_words)]),
                       !.word_count = @ + total_words - word_index]
               ELSE segment(i)]

\* variant: the interval closed at its end
InSegmentClosed(word_start, start_sec, end_sec) == word_start >= start_sec /\ word_start <= end_sec

\* segment_by_agenda: "Word is in segment if it overlaps"
InSegment(word_start, start_sec, end_sec) == word_start >= start_sec /\ word_start < end_sec

\* segment_by_agenda: the positions of the words collected for an interval,
\* the scan starting at word k and ending at the first word at or after end_sec
RECURSIVE Collect(_, _, _, _)
Collect(word_timestamps, k, start_sec, end_sec) ==
    IF k > Len(word_timestamps) THEN <<>>
    ELSE IF InSegment(word_timestamps[k].start, start_sec, end_sec)
         THEN <<k>> \o Collect(word_timestamps, k + 1, start_sec, end_sec)
         ELSE IF word_timestamps[k].start >= end_sec THEN <<>>
              ELSE Collect(word_timestamps, k + 1, start_sec, end_sec)

\* segment_by_agenda(clip_id) for a transcript with word timestamps and a
\* meeting with agenda items; segment_words holds positions for the words
segment_by_agenda(word_timestamps, agenda_items) ==
    [i \in 1..Len(agenda_items) |->
       LET start_sec == agenda_items[i].start_seconds
           end_sec == EndSec(agenda_items, i, word_timestamps[Len(word_timestamps)].end)
           segment_words == Collect(word_timestamps, 1, start_sec, end_sec)
       IN [agenda_item_id |-> i, segment_words |-> segment_words,
           start_seconds |-> start_sec, end_seconds |-> end_sec,
           word_count |-> Len(segment_words)]]

WordCountCall ==
    /\ fcall = NoCall
    /\ \E full_text \in FullTexts, agenda_items \in AgendaRows \ {<<>>} :
          fcall' = [name |-> "segment_by_word_count",
                    args |-> [full_text |-> full_text, agenda_items |-> agenda_items],
                    ret |-> segment_by_word_count(full_text, agenda_items)]
    /\ UNCHANGED <<ledger, files, batch, worker, cont, agenda, disc, txn, probes, conc, etext, val, an>>

ByAgendaCall ==
    /\ fcall = NoCall
    /\ \E word_timestamps \in WordTimestamps \ {<<>>}, agenda_items \in AgendaRows \ {<<>>} :
          fcall' = [name |-> "segment_by_agenda",
                    args |-> [word_timestamps |-> word_timestamps, agenda_items |-> agenda_items],
                    ret |-> segment_by_agenda(word_timestamps, agenda_items)]
    /\ UNCHANGED <<ledger, files, batch, worker, cont, agenda, disc, txn, probes, conc, etext, val, an>>

SegmentStep ==
    \/ WordCountCall \/ ByAgendaCall

\* one call of a segmenter function
SpecSegment == Init /\ [][SegmentStep]_vars

\* ------------------------------------------------------------ properties
\* the forward order of the status enum
StatusOrder == <<"discovered", "downloading", "downloaded", "transcribing", "transcribed",
                 "validating", "validated", "analyzing", "analyzed">>

\* place of a status in the forward order; 0 for a missing row, -10 for
\* "failed", which is outside the order
StatusRank(s) ==
    IF \E i \in 1..Len(StatusOrder) : StatusOrder[i] = s
    THEN CHOOSE i \in 1..Len(StatusOrder) : StatusOrder[i] = s
    ELSE IF s = "absent" THEN 0 ELSE -10

\* the workers that write the status
StatusStages == {"download", "transcribe", "validate", "analyze"}

\* C1: when a batch function forms its list with room to spare (the list is
\* shorter than the batch size), every meeting left at the stage's -ing
\* status by an interrupted worker is in the list, so that it is retried.
C1_InterruptedIsReselected ==
    [][(opc \in StatusStages /\ bphase = "enter" /\ bphase' = "loop")
         => \A c \in Clips :
              status[c] = IngStatus(opc)
                => (c \in Range(pending') \/ Len(pending') = bsize')]_vars

\* C2: a status-writing worker entered on a meeting whose status is past the
\* stage's output status returns at once and leaves the ledger unchanged.
C2_StatusGate ==
    [][(wstage \in StatusStages /\ wpc = "entry"
        /\ StatusRank(status[cur]) > StatusRank(OutputStatus(wstage)))
         => (UNCHANGED ledger /\ wstage' = "none")]_vars

\* C3: every change of a meeting's status is a change to "failed" or the
\* step to the next status of the forward order (the insert of the row with
\* "discovered" being the first step).
C3_ForwardOnly ==
    [][\A c \in Clips :
         status'[c] # status[c]
           => \/ status'[c] = "failed"
              \/ StatusRank(status'[c]) = StatusRank(status[c]) + 1]_vars

\* C3 witness: one meeting has walked the whole order, another has failed
C3_Witness ==
    \E c, d \in Clips : status[c] = "analyzed" /\ status[d] = "failed"

\* C4: in every state, between two ledger writes of a worker and after an
\* interruption too, status downloaded or later implies a non-empty audio
\* file, transcribed or later a transcripts row and a written primary
\* transcript file, validated or later a validation row.
C4_ArtifactsPrecedeFlip ==
    \A c \in Clips :
      /\ StatusRank(status[c]) >= StatusRank("downloaded") => audio[c] \notin {"none", "empty"}
      /\ StatusRank(status[c]) >= StatusRank("transcribed") => (trec[c] /\ tfile[c] = "ok")
      /\ StatusRank(status[c]) >= StatusRank("validated") => vrec[c]

\* C4 witness: after an interruption, a worker stands between its status
\* flip and the event of the flip, another meeting being validated already
C4_Witness ==
    /\ crashes = 1
    /\ wstage = "transcribe" /\ wpc = "tr_done_log" /\ status[cur] = "transcribed"
    /\ \E c \in Clips : status[c] = "validated"

\* C5: when a status-writing worker returns, the events it appended for its
\* meeting and stage are as many as the status writes it made: one event
\* for each write.
C5_OneEventPerStatusWrite ==
    [][(wstage \in StatusStages /\ wstage' = "none" /\ crashes' = crashes)
         => nwrites' = nevents']_vars

\* C6: whenever no worker is running, for every meeting and stage the log
\* holds a completed event of the stage exactly if a worker of the stage
\* has written the stage's output status for the meeting.
C6_CompletedIffAdvanced ==
    wstage = "none"
      => \A c \in Clips, stage \in WorkerStages :
           (<<stage, "completed">> \in Range(log[c])) <=> (<<c, stage>> \in advanced)

\* C7: a worker that returns because the upstream artifact it needs is
\* missing has set the status to failed and has appended, as its last
\* event, a failed event of its stage.
C7_NotFoundIsRecorded ==
    [][(wstage \in {"transcribe", "validate", "analyze"} /\ wres' = "missing")
         => /\ status'[cur] = "failed"
            /\ log'[cur] # <<>>
            /\ log'[cur][Len(log'[cur])] = <<wstage, "failed">>]_vars

\* C8: run_full_pipeline, unless the process is interrupted, leaves a worker
\* stage only when the stage's list is used up, and then turns to the
\* next stage: no failure of one meeting ends the stage or the run.
C8_OrchestratorContinues ==
    [][(opc \in WorkerStages /\ opc' # opc /\ crashes' = crashes)
         => (pending = <<>> /\ opc' = NextStage(opc))]_vars

\* C9: run_continuous calls diarize_meeting on no meeting more than
\* max_retries times.
C9_RetryBound ==
    \A c \in Clips : attempts[c] <= max_retries

\* the stage order of the pipeline; the reports step comes after all of it
StageOrder == <<"discovery", "download", "transcribe", "diarize", "validate", "analyze">>

StageRank(stage) ==
    IF \E i \in 1..Len(StageOrder) : StageOrder[i] = stage
    THEN CHOOSE i \in 1..Len(StageOrder) : StageOrder[i] = stage
    ELSE Len(StageOrder) + 1

\* C10: within one call of run_full_pipeline the stage being run only moves
\* forward in the order Discovery, Download, Transcribe, Diarize, Validate,
\* Analyze; a worker is invoked only for the stage being run, and a stage
\* makes at most batch-size invocations.
C10_StageOrderAndBatchBound ==
    [][/\ (opc # "idle" /\ opc' # "idle" /\ opc' # opc) => StageRank(opc') > StageRank(opc)
       /\ (wstage = "none" /\ wstage' # "none") => (wstage' = opc' /\ ninv' <= bsize')]_vars

\* C10 witness: the analyze batch of size one has made its one invocation
\* and returns although another validated meeting is waiting
C10_Witness ==
    /\ opc = "analyze" /\ bphase = "loop" /\ wstage = "none"
    /\ bsize = 1 /\ ninv = 1 /\ pending = <<>>
    /\ \E c \in Clips : c # cur /\ status[c] = "validated"

\* C11: within one stage the batch functions visit the pending meetings in
\* ascending meeting-date order: when a batch function hands meeting B to
\* its worker, no meeting with an earlier date still has the stage's input
\* status
C11_DateAscendingOrder ==
    [][(opc \in StatusStages /\ wstage = "none" /\ wstage' = opc)
         => \A a \in Clips :
              status[a] = InputStatus(opc) => mdate[a] >= mdate[cur']]_vars

\* C12: every meeting whose status is analyzed has a validation record and
\* at least one analysis record of each enabled type (summary stands for
\* the types: the loop treats them alike)
C12_AnalyzedHasRecords ==
    \A c \in Clips : status[c] = "analyzed" => vrec[c] /\ arec[c] >= 1

\* C17: the ledger holds at most one analysis record per
\* (clip_id, analysis_type, segment)
C17_OneAnalysisPerKey ==
    \A c \in Clips : arec[c] <= 1

\* C13: discovery is idempotent: while run_discovery runs a second time
\* over the same range against the same pages, no meeting, status, agenda
\* item or event of the ledger changes, and the run counts new = 0 and
\* updated = 0
C13_DiscoveryIdempotent ==
    [][/\ rerun => UNCHANGED <<ledger, agenda>>
       /\ rerun' => stats_new' = 0 /\ stats_updated' = 0]_vars

\* the second run has gone through its whole list, which holds a meeting
\* the first run inserted with its agenda items and one whose URL it stored
C13_Witness ==
    /\ rerun /\ opc = "discovery" /\ bphase = "loop" /\ pending = <<>>
    /\ \E c \in Clips : pages[c] # "none" /\ agenda[c] # <<>> /\ Len(log[c]) = 1
    /\ \E c \in Clips : pages[c] = "url" /\ video_url[c]

\* the meeting is in the ledger and is not the one the running
\* save_discovered_meetings has just inserted
Existing(c) ==
    /\ status[c] # "absent"
    /\ ~(opc = "discovery" /\ bphase \in {"inserted", "itemized"} /\ c = Head(pending))

\* C14: discovery never overwrites an existing meeting: while discovery
\* runs, a meeting already in the ledger keeps its date, status, agenda
\* items, events and records; only its stream URL may change, from absent
\* to the parsed one
C14_NoOverwrite ==
    [][\A c \in Clips :
         (opc = "discovery" /\ Existing(c))
           => /\ status'[c] = status[c] /\ mdate'[c] = mdate[c]
              /\ agenda'[c] = agenda[c] /\ log'[c] = log[c]
              /\ trec'[c] = trec[c] /\ vrec'[c] = vrec[c] /\ arec'[c] = arec[c]
              /\ video_url'[c] # video_url[c]
                   => ~video_url[c] /\ pages[c] = "url" /\ video_url'[c]]_vars

\* save_discovered_meetings has passed over an analyzed meeting whose page
\* parsed again, and has filled the missing URL of another
C14_Witness ==
    /\ opc = "discovery" /\ bphase = "loop" /\ pending = <<>>
    /\ \E c \in Clips : pages[c] # "none" /\ status[c] = "analyzed" /\ stats_new = 0
    /\ \E c \in Clips : pages[c] = "url" /\ video_url[c] /\ stats_updated = 1

C18_WitnessFailed ==
    /\ apc = "rollback" /\ Len(arows) = 1 /\ agenda[aclip] # <<>>

\* C15: during discover_meetings_in_range with concurrency c, at most c
\* clip-page fetches are in flight at any moment
C15_BoundedConcurrency ==
    Cardinality({i \in ProbeIds : ptask[i] = "fetching"}) <= concurrency

\* concurrency = 2: two fetches are in flight and a third probe waits
C15_Witness ==
    /\ ppc = "gather" /\ concurrency = 2
    /\ Cardinality({i \in ProbeIds : ptask[i] = "fetching"}) = 2
    /\ \E i \in ProbeIds : ptask[i] = "created"

\* C16: the list discover_meetings_in_range returns holds exactly the
\* clips whose probe gave a meeting of an accepted type, in clip order,
\* whatever the other probes gave and in whatever order the probes ended
C16_FailureIsolation ==
    ppc = "returned"
      => discovered = Ascending({i \in 1..prange : presults[i] = "meeting"})

\* a probe raised, one found nothing, the third gave a meeting: the list
\* returned is that meeting
C16_Witness ==
    /\ ppc = "returned"
    /\ \E i, j, k \in ProbeIds :
         /\ presults[i] = "exc" /\ presults[j] = "none" /\ presults[k] = "meeting"
         /\ discovered = <<k>>

\* C19: download_meeting sets the status downloaded only when a probe of
\* the output file confirms audio of positive duration
C19_ProbeBeforeFlip ==
    [][(wstage = "download" /\ status[cur] # "downloaded" /\ status'[cur] = "downloaded")
         => audio'[cur] = "ok"]_vars

\* C20: download_meeting called for a meeting with a stream URL whose audio
\* file exists: if the file is audio of positive duration, the call sets
\* downloaded and returns success with no event written and the file
\* untouched; if not, the call goes on to the extractor
C20_DownloadResume ==
    [][(wstage = "download" /\ wpc = "entry" /\ status[cur] # "absent"
          /\ video_url[cur] /\ audio[cur] # "none")
         => IF audio[cur] = "ok"
            THEN /\ status'[cur] = "downloaded" /\ wstage' = "none" /\ wres' = "ok"
                 /\ audio' = audio /\ log' = log
            ELSE /\ status'[cur] = "downloading" /\ wstage' = "download"
                 /\ wpc' = "dl_started_log"]_vars

\* a direct download_meeting call has returned success after one status
\* write and no event: the existing file was taken
C20_Witness ==
    /\ ops = 1 /\ opc = "idle" /\ wstage = "none" /\ wres = "ok"
    /\ nwrites = 1 /\ nevents = 0
    /\ status[cur] = "downloaded" /\ audio[cur] = "ok"

\* C21: transcribe_meeting sets the status to transcribed only when every
\* engine it invoked returned non-empty text; an engine that returns empty
\* text makes the call fail instead.
C21_EmptyTranscriptionIsFatal ==
    [][(wstage = "transcribe" /\ wpc = "tr_flip" /\ status'[cur] = "transcribed")
         => \A m \in Engines : etext[m] = "text"]_vars

\* C22: calculate_segment_wer gives 0 for two identical texts, both empty
\* included, and for two non-empty texts that are identical after lowercasing
\* and trimming; it gives 1 when exactly one of the two texts is empty.
C22_WerBoundaryValues ==
    fcall.name = "calculate_segment_wer" =>
        LET text1 == fcall.args[1]
            text2 == fcall.args[2]
        IN /\ text1 = text2 => RatEq(fcall.ret, Zero)
           /\ (Truthy(text1) /\ Truthy(text2) /\ LowerStrip(text1) = LowerStrip(text2))
                 => RatEq(fcall.ret, Zero)
           /\ (Truthy(text1) # Truthy(text2)) => RatEq(fcall.ret, One)

\* C24: every WER that calculate_segment_wer returns, the overall WER of
\* compare_transcripts and the WER of every divergent-segment descriptor are
\* between 0 and 1.
C24_WerBounded ==
    /\ fcall.name = "calculate_segment_wer"
          => RatLeq(Zero, fcall.ret) /\ RatLeq(fcall.ret, One)
    /\ fcall.name = "compare_transcripts"
          => /\ RatLeq(Zero, fcall.ret[1]) /\ RatLeq(fcall.ret[1], One)
             /\ \A i \in 1..Len(fcall.ret[2]) :
                    RatLeq(Zero, fcall.ret[2][i].wer) /\ RatLeq(fcall.ret[2][i].wer, One)

\* C23: when validate_meeting stores a row for a meeting whose secondary
\* transcript is missing, the stored WER is 1.0.
C23_MissingSideIsTotalDisagreement ==
    (vrow.present /\ ~secondary.present) => RatEq(vrow.wer_score, One)

\* the indices of the divergent segments of this run
DivergentIndices == {divergent_segments[k].segment_index : k \in 1..Len(divergent_segments)}

\* the tier-1 result for index i asked for deep review
Tier1Flagged(i) ==
    \E k \in 1..Len(called) :
        /\ called[k].tier = 1 /\ called[k].index = i
        /\ \/ ~called[k].response.parsed
           \/ called[k].response.needs_deep_review
           \/ called[k].response.score < VALIDATION_COHERENCE_THRESHOLD

\* C25: every tier-2 call is for a segment index that is divergent or whose
\* tier-1 result is below the coherence threshold or asks for deep review; no
\* index gets more than one tier-2 call; there are at most Tier2Limit tier-2
\* calls; every tier-1 call comes before every tier-2 call.
C25_Tier2Protocol ==
    /\ \A k \in Tier2Calls : called[k].index \in DivergentIndices \/ Tier1Flagged(called[k].index)
    /\ \A k \in Tier2Calls : \A j \in Tier2Calls : called[k].index = called[j].index => k = j
    /\ Cardinality(Tier2Calls) <= Tier2Limit
    /\ \A k \in Tier2Calls : \A j \in 1..Len(called) : called[j].tier = 1 => j < k

\* Tier2Limit tier-2 calls were made while more segments were listed, one
\* for a segment that tier 1 flagged and one for a segment that is on the
\* list only because it is divergent
C25_Witness ==
    /\ wpc = "va_store"
    /\ Cardinality(Tier2Calls) = Tier2Limit
    /\ Len(segments_needing_deep) > Tier2Limit
    /\ \E k \in Tier2Calls : called[k].index \in DivergentIndices /\ ~Tier1Flagged(called[k].index)
    /\ \E k \in Tier2Calls : Tier1Flagged(called[k].index)

\* a tier-2 call was made for a divergent segment beyond the tier-1 limit
C25_WitnessBeyondTier1 ==
    \E k \in Tier2Calls : called[k].index >= Tier1Limit /\ called[k].index \in DivergentIndices

\* C26: the stored human_review_needed is true exactly when some tier-2
\* response of the run asked for human review or could not be parsed; it is
\* false when no tier-2 call was made.
C26_HumanReviewFlag ==
    vrow.present =>
        (vrow.human_review_needed <=>
            \E k \in Tier2Calls :
                ~called[k].response.parsed \/ called[k].response.needs_human_review)

\* a row was stored with the flag set by an unparseable tier-2 response alone
C26_Witness ==
    /\ vrow.present /\ vrow.human_review_needed
    /\ Tier2Calls # {}
    /\ \A k \in Tier2Calls : ~called[k].response.needs_human_review

\* a row was stored with the flag clear after a run without tier-2 calls
C26_WitnessNoCalls ==
    vrow.present /\ ~vrow.human_review_needed /\ Tier2Calls = {} /\ Len(called) > 0

\* the (segment, type) pairs analyze_meeting has called the model for
PairCalls == {k \in 1..Len(an_calls) : an_calls[k].pair[1] > 0}

\* C27: when the response for a (segment, type) pair holds no JSON object
\* that parses, analyze_meeting stores a raw_response record for the pair,
\* goes on with the next pairs, and the status still becomes analyzed: the
\* failure branch is never entered from the loop over the pairs.
C27_ParseFailureNotFatal ==
    /\ \A k \in PairCalls :
          NoJsonObject(an_calls[k].response)
             => \E r \in 1..Len(an_rows) :
                   an_rows[r] = [pair |-> an_calls[k].pair, result |-> "raw_response"]
    /\ (wstage = "analyze" /\ wpc = "an_exc")
          => an_calls # <<>> /\ an_calls[Len(an_calls)].pair[1] = 0
    /\ (wstage = "analyze" /\ wpc = "an_flip")
          => Cardinality(PairCalls) =
                Cardinality({j \in 1..Len(an_segments) : an_segments[j] = "long"}) * Len(analysis_types)

\* a call of merge_speaker_identifications has returned
Merged == fcall.name = "merge_speaker_identifications"

\* C28: in every result of merge_speaker_identifications, each segment's
\* speaker name is empty, or its speaker ID is a key of the speaker mapping
\* and the name is one of the names in the mapping.
C28_NameMapConsistency ==
    Merged =>
        \A i \in 1..NumTranscriptSegs :
            LET seg == fcall.ret.segments[i]
                mapping == fcall.ret.speaker_mapping
            IN \/ seg.speaker_name = ""
               \/ /\ seg.speaker_id \in DOMAIN mapping
                  /\ \E id \in DOMAIN mapping : mapping[id] = seg.speaker_name

\* the entries of llm_ids for the segment with 0-based index i - 1
LlmFor(i) ==
    {k \in 1..Len(fcall.args.llm_ids) : fcall.args.llm_ids[k].segment_index = i - 1}

\* the segment has evidence of its own that names a speaker
HasPattern(i) == fcall.args.pattern_ids[i] # <<>>

HasAgenda(i) == fcall.args.agenda_ids[i] # ""

HasLlm(i) ==
    \E k \in LlmFor(i) :
        /\ \A j \in LlmFor(i) : k <= j
        /\ fcall.args.llm_ids[k].speaker # ""

\* C29: a segment with pattern evidence gets the pattern name with
\* confidence 0.9 and method pattern; otherwise one with an agenda presenter
\* gets the presenter with 0.7 and method agenda; otherwise one with an LLM
\* attribution gets the LLM's speaker with the LLM's confidence and method llm.
C29_DirectPriority ==
    Merged =>
        \A i \in 1..NumTranscriptSegs :
            LET seg == fcall.ret.segments[i]
            IN /\ HasPattern(i)
                    => /\ seg.speaker_name = fcall.args.pattern_ids[i][1]
                       /\ seg.confidence = 90
                       /\ seg.identification_method = "pattern"
               /\ (~HasPattern(i) /\ HasAgenda(i))
                    => /\ seg.speaker_name = fcall.args.agenda_ids[i]
                       /\ seg.confidence = 70
                       /\ seg.identification_method = "agenda"
               /\ (~HasPattern(i) /\ ~HasAgenda(i) /\ HasLlm(i))
                    => \E k \in LlmFor(i) :
                          /\ \A j \in LlmFor(i) : k <= j
                          /\ seg.speaker_name = fcall.args.llm_ids[k].speaker
                          /\ seg.confidence = (IF fcall.args.llm_ids[k].confidence = 0 THEN 50
                                               ELSE fcall.args.llm_ids[k].confidence)
                          /\ seg.identification_method = "llm"

\* one segment has a pattern match and a different agenda presenter, another
\* an agenda presenter and a different LLM attribution
C29_Witness ==
    /\ Merged
    /\ \E i \in 1..NumTranscriptSegs :
          /\ HasPattern(i) /\ HasAgenda(i)
          /\ fcall.args.pattern_ids[i][1] # fcall.args.agenda_ids[i]
          /\ fcall.ret.segments[i].identification_method = "pattern"
    /\ \E i \in 1..NumTranscriptSegs :
          /\ ~HasPattern(i) /\ HasAgenda(i) /\ HasLlm(i)
          /\ fcall.ret.segments[i].speaker_name = "A"

\* a segment with LLM evidence alone carries the LLM's speaker and confidence
C29_WitnessLlm ==
    /\ Merged
    /\ \E i \in 1..NumTranscriptSegs :
          /\ ~HasPattern(i) /\ ~HasAgenda(i) /\ HasLlm(i)
          /\ fcall.ret.segments[i].identification_method = "llm"
          /\ fcall.ret.segments[i].confidence = 80

\* the segments that vote for speaker ID id with name n: those of that ID
\* with a direct attribution to n
VotersFor(id, n) ==
    {i \in 1..NumTranscriptSegs :
        /\ fcall.ret.segments[i].speaker_id = id
        /\ HasPattern(i) \/ HasAgenda(i) \/ HasLlm(i)
        /\ fcall.ret.segments[i].speaker_name = n}

\* the weight of the vote of segment i, doubled
WeightOf(i) ==
    IF HasPattern(i) THEN 4 ELSE IF HasAgenda(i) THEN 3 ELSE 2

RECURSIVE SumWeights(_)
SumWeights(S) ==
    IF S = {} THEN 0
    ELSE LET i == CHOOSE x \in S : TRUE IN WeightOf(i) + SumWeights(S \ {i})

\* name m beats name n for speaker ID id: more weight, or the same weight
\* and voted for first
Beats(id, m, n) ==
    \/ SumWeights(VotersFor(id, m)) > SumWeights(VotersFor(id, n))
    \/ /\ SumWeights(VotersFor(id, m)) = SumWeights(VotersFor(id, n))
       /\ \E i \in VotersFor(id, m) : \A j \in VotersFor(id, n) : i < j

C31_AgendaOrdering ==
    fcall.name = "get_agenda_items" =>
        LET rows == fcall.ret
        IN /\ \A k \in 1..(Len(rows) - 1) : rows[k].start_seconds < rows[k + 1].start_seconds
           /\ \A k \in 1..Len(rows) :
                 rows[k].end_seconds # NoTime
                    => /\ rows[k].start_seconds <= rows[k].end_seconds
                       /\ k < Len(rows) => rows[k].end_seconds <= rows[k + 1].start_seconds

\* C32: in run_continuous, once the interrupt or terminate signal has set
\* the flag, the diarize_meeting invocation in progress runs to its end
\* and no further diarize_meeting invocation is started.
C32_CooperativeShutdown ==
    [][shutdown_requested
         => /\ (wstage = "none" => wstage' = "none")
            /\ (wstage = "diarize" /\ wstage' = "none" => wres' # "none")]_vars

\* C34: in a run_continuous session in which every diarize_meeting of a
\* meeting ends with a logged failed event, the meeting is put in
\* permanently_failed after exactly max_retries invocations.
C34_ExactlyMaxRetries ==
    [][\A c \in Clips :
          (c \in permanently_failed' /\ c \notin permanently_failed
             /\ get_diarization_retry_count(c) = attempts[c])
          => attempts[c] = max_retries]_vars

\* what the ledger and the artifact store hold of one meeting
MeetingState(c) ==
    <<status[c], video_url[c], mdate[c], trec[c], vrec[c], arec[c], log[c],
      audio[c], tfile[c], tfile2[c], dfile[c]>>

\* C33: with two stage workers running at the same time on two different
\* meetings, every step changes the status, records, events and files of
\* the stepping worker's meeting only, so each meeting ends as if its
\* worker had run alone.
C33_WorkersDoNotInterfere ==
    [][\A c \in Clips :
          (wstage = "none" \/ c # cur) => MeetingState(c)' = MeetingState(c)]_vars

\* both workers have written a status and neither has returned
C33_Witness ==
    /\ wstage # "none" /\ parked.wstage # "none"
    /\ cur # parked.cur
    /\ nwrites > 0 /\ parked.nwrites > 0

\* agenda items sorted by start, no item ending before it starts or after
\* the next one starts
SortedNonOverlapping(agenda_items) ==
    /\ \A i \in 1..Len(agenda_items) :
          agenda_items[i].end_seconds # NoTime
             => agenda_items[i].start_seconds <= agenda_items[i].end_seconds
    /\ \A i \in 1..(Len(agenda_items) - 1) :
          /\ agenda_items[i].start_seconds <= agenda_items[i + 1].start_seconds
          /\ agenda_items[i].end_seconds # NoTime
                => agenda_items[i].end_seconds <= agenda_items[i + 1].start_seconds

\* the words of the segments' texts, one segment after the other
RECURSIVE SegmentWords(_)
SegmentWords(segments) ==
    IF segments = <<>> THEN <<>>
    ELSE Head(segments).text.words \o SegmentWords(Tail(segments))

RECURSIVE SumWordCount(_)
SumWordCount(segments) ==
    IF segments = <<>> THEN 0
    ELSE Head(segments).word_count + SumWordCount(Tail(segments))

\* one segment per item in agenda order, every word of the full text once
\* and in order, the allotted words in each segment and the rest in the last
ConservesWords ==
    LET full_text == fcall.args.full_text
        agenda_items == fcall.args.agenda_items
        segments == fcall.ret
        n == Len(agenda_items)
    IN /\ Len(segments) = n
       /\ \A i \in 1..n :
             /\ segments[i].agenda_item_id = i
             /\ segments[i].start_seconds = agenda_items[i].start_seconds
             /\ segments[i].word_count = Len(segments[i].text.words)
       /\ SegmentWords(segments) = full_text.words
       /\ SumWordCount(segments) = Len(full_text.words)
       /\ \A i \in 1..(n - 1) :
             segments[i].word_count = Allotment(Len(full_text.words), agenda_items, i)
       /\ segments[n].word_count >= Allotment(Len(full_text.words), agenda_items, n)

\* C35: for every full text that is not the empty string and every agenda
\* list sorted and non-overlapping by start, segment_by_word_count returns
\* one segment per agenda item in order, the texts together are the words
\* of the full text, the word counts add up and the rest is in the last.
C35_WordCountConserves ==
    (/\ fcall.name = "segment_by_word_count"
     /\ fcall.args.full_text # EmptyText
     /\ SortedNonOverlapping(fcall.args.agenda_items))
       => ConservesWords

\* C35 as it holds: the same for every full text with at least one word
C35_WordCountConservesWords ==
    (/\ fcall.name = "segment_by_word_count"
     /\ fcall.args.full_text.words # <<>>
     /\ SortedNonOverlapping(fcall.args.agenda_items))
       => ConservesWords

\* two items share the words and words are left over for the last segment
C35_Witness ==
    /\ fcall.name = "segment_by_word_count"
    /\ SortedNonOverlapping(fcall.args.agenda_items)
    /\ Len(fcall.args.agenda_items) = 2
    /\ fcall.ret # <<>>
    /\ fcall.ret[1].word_count > 0
    /\ fcall.ret[2].word_count
         > Allotment(Len(fcall.args.full_text.words), fcall.args.agenda_items, 2)

\* C36: given agenda items sorted and non-overlapping and word timestamps
\* in time order, segment_by_agenda puts a word into item i's segment
\* exactly when the word's start is in [start, end) of the item, a missing
\* end being the next item's start or, for the last item, the last word's
\* end; no word is in two segments and a segment keeps the words' order.
C36_TimestampSegmentation ==
    (fcall.name = "segment_by_agenda" /\ SortedNonOverlapping(fcall.args.agenda_items))
       => LET word_timestamps == fcall.args.word_timestamps
              agenda_items == fcall.args.agenda_items
              segments == fcall.ret
              InItem(k, i) == \E j \in 1..Len(segments[i].segment_words) :
                                 segments[i].segment_words[j] = k
          IN /\ Len(segments) = Len(agenda_items)
             /\ \A i \in 1..Len(agenda_items) :
                   LET end_sec ==
                         IF agenda_items[i].end_seconds # NoTime
                         THEN agenda_items[i].end_seconds
                         ELSE IF i < Len(agenda_items)
                              THEN agenda_items[i + 1].start_seconds
                              ELSE word_timestamps[Len(word_timestamps)].end
                   IN /\ \A k \in 1..Len(word_timestamps) :
                            InItem(k, i) <=> /\ agenda_items[i].start_seconds <= word_timestamps[k].start
                                             /\ word_timestamps[k].start < end_sec
                      /\ \A j \in 1..(Len(segments[i].segment_words) - 1) :
                            segments[i].segment_words[j] < segments[i].segment_words[j + 1]
             /\ \A k \in 1..Len(word_timestamps) :
                   \A i1, i2 \in 1..Len(agenda_items) :
                      InItem(k, i1) /\ InItem(k, i2) => i1 = i2

\* two items, a word in each, and a word that starts where the first ends
C36_Witness ==
    /\ fcall.name = "segment_by_agenda"
    /\ SortedNonOverlapping(fcall.args.agenda_items)
    /\ Len(fcall.args.agenda_items) = 2
    /\ fcall.ret[1].word_count > 0
    /\ fcall.ret[2].word_count > 0
    /\ \E k \in 1..Len(fcall.args.word_timestamps) :
          fcall.args.word_timestamps[k].start = fcall.ret[1].end_seconds

\* C37: once a meeting's status is failed, no step of run_full_pipeline or
\* of a batch function changes the status, lists the meeting for a stage
\* or calls a worker on it.
C37_FailedIsTerminal ==
    [][\A c \in Clips :
          status[c] = "failed"
             => /\ status'[c] = "failed"
                /\ (opc' \in WorkerStages /\ pending' # pending => c \notin Range(pending'))
                /\ ~(wstage = "none" /\ wstage' # "none" /\ cur' = c)]_vars

\* a batch function makes its list while a meeting is failed
C37_Witness ==
    /\ opc \in WorkerStages /\ bphase = "loop"
    /\ \E c \in Clips : status[c] = "failed" /\ <<c, opc>> \notin advanced
    /\ \E c \in Clips : status[c] = InputStatus(opc)

\* C39: whatever its outcome, diarize_meeting changes no status and no
\* ledger record other than the event log; it only appends diarize events
\* of its meeting and writes the meeting's diarization file.
C39_DiarizeFrame ==
    [][wstage = "diarize"
         => /\ UNCHANGED <<status, video_url, mdate, trec, vrec, arec, audio, tfile, tfile2>>
            /\ \A c \in Clips \ {cur} : log'[c] = log[c] /\ dfile'[c] = dfile[c]
            /\ \/ log'[cur] = log[cur]
               \/ \E st \in {"started", "completed", "failed"} :
                     log'[cur] = Append(log[cur], <<"diarize", st>>)]_vars

\* a diarize_meeting that wrote its file and both events
C39_Witness ==
    /\ wstage = "none" /\ wres = "ok"
    /\ dfile[cur] = "ok"
    /\ log[cur] = <<<<"diarize", "started">>, <<"diarize", "completed">>>>

\* the other outcomes: a logged failure, a file missing, the meeting missing
C39_WitnessFailures ==
    /\ wstage = "none"
    /\ \/ wres = "fail" /\ status[cur] = "absent"
       \/ wres = "fail" /\ log[cur] = <<<<"diarize", "started">>, <<"diarize", "failed">>>>
       \/ wres = "missing"

C40_DiarizeBeforeValidate ==
    [][\A c \in Clips :
          (status[c] = "transcribed" /\ status'[c] # "transcribed")
             => (dfile[c] # "none" \/ <<"diarize", "started">> \in Range(log[c]))]_vars

====
